---- MODULE Spec2Model ----
(***************************************************************************)
(* Emoji Crush: the board (GameBoard), the match scan and scoring          *)
(* (MatchDetector) and the game controller (EmojiCrushGame).               *)
(*                                                                         *)
(* Rows and columns are 0-indexed as in the source.  A grid is a function  *)
(* row -> (col -> tile).  A tile is a basic emoji, a special emoji or Null *)
(* (the source's null, an empty cell).  Lists of the source (matches,      *)
(* positions, special emojis, move history) are sequences in source order. *)
(***************************************************************************)
EXTENDS Integers, Sequences, FiniteSets, TLC

\* ------------------------------------------------------------------ bounds
\* Board side of the game (the source plays on 8 x 8).
GameSize == 3
\* How many of the board's ten basic emojis are in play.
NumKinds == 2

\* --------------------------------------------------------------- GameBoard
AllEmojis ==
    <<"apple", "banana", "grape", "strawberry", "avocado",
      "pizza", "donut", "star", "fire", "gem">>

emojis == SubSeq(AllEmojis, 1, NumKinds)

Kinds == {emojis[i] : i \in 1..Len(emojis)}

specialEmojis == [striped |-> "striped", bomb |-> "bomb", rainbow |-> "rainbow"]

SpecialTypes == {"striped", "bomb", "rainbow"}

Null == "null"

Size(g) == Cardinality(DOMAIN g)

Pos(r, c) == [row |-> r, col |-> c]

isValidPosition(g, row, col) ==
    row >= 0 /\ row < Size(g) /\ col >= 0 /\ col < Size(g)

getEmoji(g, row, col) ==
    IF row < 0 \/ row >= Size(g) \/ col < 0 \/ col >= Size(g)
    THEN Null
    ELSE g[row][col]

\* setEmoji; the mutant writes the emoji to every cell of the row.
setEmojiAlongRow(g, row, col, emoji) ==
    IF isValidPosition(g, row, col)
    THEN [g EXCEPT ![row] = [c \in DOMAIN g[row] |-> emoji]]
    ELSE g

setEmoji(g, row, col, emoji) ==
    IF isValidPosition(g, row, col)
    THEN [g EXCEPT ![row][col] = emoji]
    ELSE g

\* isSpecialEmoji; the mutant takes no emoji for special.
isSpecialEmojiNever(emoji) == FALSE

isSpecialEmoji(emoji) == \E t \in SpecialTypes : specialEmojis[t] = emoji

\* swapEmojis without its temp: the second cell keeps its emoji.
swapEmojisNoTemp(g, pos1, pos2) ==
    IF ~isValidPosition(g, pos1.row, pos1.col) \/ ~isValidPosition(g, pos2.row, pos2.col)
    THEN g
    ELSE [g EXCEPT ![pos1.row][pos1.col] = g[pos2.row][pos2.col]]

swapEmojis(g, pos1, pos2) ==
    IF ~isValidPosition(g, pos1.row, pos1.col) \/ ~isValidPosition(g, pos2.row, pos2.col)
    THEN g
    ELSE [g EXCEPT ![pos1.row][pos1.col] = g[pos2.row][pos2.col],
                   ![pos2.row][pos2.col] = g[pos1.row][pos1.col]]

Abs(x) == IF x < 0 THEN -x ELSE x

\* areAdjacent; the mutant also takes the diagonal neighbours.
areAdjacentOrDiagonal(pos1, pos2) ==
    LET rowDiff == Abs(pos1.row - pos2.row)
        colDiff == Abs(pos1.col - pos2.col)
    IN  rowDiff <= 1 /\ colDiff <= 1 /\ rowDiff + colDiff > 0

areAdjacent(pos1, pos2) ==
    LET rowDiff == Abs(pos1.row - pos2.row)
        colDiff == Abs(pos1.col - pos2.col)
    IN  (rowDiff = 1 /\ colDiff = 0) \/ (rowDiff = 0 /\ colDiff = 1)

\* removeEmojis: every valid position of the list becomes null.  The mutant
\* takes a position off the board for the nearest cell of the board.
removeEmojisClamped(g, positions) ==
    LET clamp(x) == IF x < 0 THEN 0 ELSE IF x >= Size(g) THEN Size(g) - 1 ELSE x
    IN  [r \in DOMAIN g |->
            [c \in DOMAIN g[r] |->
                IF \E i \in 1..Len(positions) :
                      Pos(clamp(positions[i].row), clamp(positions[i].col)) = Pos(r, c)
                THEN Null
                ELSE g[r][c]]]

removeEmojis(g, positions) ==
    [r \in DOMAIN g |->
        [c \in DOMAIN g[r] |->
            IF \E i \in 1..Len(positions) : positions[i] = Pos(r, c)
            THEN Null
            ELSE g[r][c]]]

createSpecialEmoji(g, row, col, type) ==
    IF isValidPosition(g, row, col)
    THEN [g EXCEPT ![row][col] = specialEmojis[type]]
    ELSE g

\* applyGravity, one column: the inner loop from the bottom row up, with its
\* write position.
RECURSIVE GravityColumn(_, _, _, _)
GravityColumn(g, col, row, writePos) ==
    IF row < 0 THEN g
    ELSE IF g[row][col] # Null
         THEN IF row # writePos
              THEN GravityColumn([g EXCEPT ![writePos][col] = g[row][col],
                                           ![row][col] = Null],
                                 col, row - 1, writePos - 1)
              ELSE GravityColumn(g, col, row - 1, writePos - 1)
         ELSE GravityColumn(g, col, row - 1, writePos)

RECURSIVE GravityFrom(_, _)
GravityFrom(g, col) ==
    IF col >= Size(g) THEN g
    ELSE GravityFrom(GravityColumn(g, col, Size(g) - 1, Size(g) - 1), col + 1)

applyGravity(g) == GravityFrom(g, 0)

\* applyGravity together with the list it returns: st = [grid, movements].
\* The mutant records a movement for every emoji, moved or not.
RECURSIVE MovementsColumnAll(_, _, _, _)
MovementsColumnAll(st, col, row, writePos) ==
    IF row < 0 THEN st
    ELSE IF st.grid[row][col] # Null
         THEN MovementsColumnAll(
                  [grid |-> IF row # writePos
                            THEN [st.grid EXCEPT ![writePos][col] = st.grid[row][col],
                                                 ![row][col] = Null]
                            ELSE st.grid,
                   movements |-> Append(st.movements,
                                    [from |-> Pos(row, col), to |-> Pos(writePos, col),
                                     emoji |-> st.grid[row][col]])],
                  col, row - 1, writePos - 1)
         ELSE MovementsColumnAll(st, col, row - 1, writePos)

RECURSIVE MovementsColumn(_, _, _, _)
MovementsColumn(st, col, row, writePos) ==
    IF row < 0 THEN st
    ELSE IF st.grid[row][col] # Null
         THEN IF row # writePos
              THEN MovementsColumn(
                       [grid |-> [st.grid EXCEPT ![writePos][col] = st.grid[row][col],
                                                 ![row][col] = Null],
                        movements |-> Append(st.movements,
                                         [from |-> Pos(row, col),
                                          to |-> Pos(writePos, col),
                                          emoji |-> st.grid[row][col]])],
                       col, row - 1, writePos - 1)
              ELSE MovementsColumn(st, col, row - 1, writePos - 1)
         ELSE MovementsColumn(st, col, row - 1, writePos)

RECURSIVE MovementsFrom(_, _)
MovementsFrom(st, col) ==
    IF col >= Size(st.grid) THEN st
    ELSE MovementsFrom(
             MovementsColumn(st, col, Size(st.grid) - 1, Size(st.grid) - 1), col + 1)

applyGravityMovements(g) == MovementsFrom([grid |-> g, movements |-> <<>>], 0)

EmptyCells(g) ==
    {p \in [row : DOMAIN g, col : DOMAIN g] : g[p.row][p.col] = Null}

\* The outcomes of the random draws that are explored for a set of cells: all
\* cells the same emoji, or two emojis alternating like a checkerboard.
Draws(cells) ==
    {f \in [cells -> Kinds] :
        \/ \A p, q \in cells : f[p] = f[q]
        \/ \A p, q \in cells :
              (f[p] = f[q]) <=> ((p.row + p.col) % 2 = (q.row + q.col) % 2)}

\* fillEmpty with the random draws given: choice maps each empty cell to the
\* basic emoji drawn for it.  The mutant starts its row loop at row 1.
fillEmptyBelowTop(g, choice) ==
    [r \in DOMAIN g |->
        [c \in DOMAIN g[r] |->
            IF g[r][c] = Null /\ r > 0 THEN choice[Pos(r, c)] ELSE g[r][c]]]

fillEmpty(g, choice) ==
    [r \in DOMAIN g |->
        [c \in DOMAIN g[r] |->
            IF g[r][c] = Null THEN choice[Pos(r, c)] ELSE g[r][c]]]

\* getSpecialEmojiEffect, as the set of the position sets it can return: the
\* striped emoji clears its row or its column, whichever Math.random picks;
\* the rainbow emoji clears the cells of one basic emoji that is on the board.
\* The mutant's bomb does not test isValidPosition.
getSpecialEmojiEffectUnclipped(g, row, col, type) ==
    IF type = "striped"
    THEN {{Pos(row, c) : c \in DOMAIN g}, {Pos(r, col) : r \in DOMAIN g}}
    ELSE IF type = "bomb"
    THEN {[row : (row - 1)..(row + 1), col : (col - 1)..(col + 1)]}
    ELSE IF type = "rainbow"
    THEN LET availableEmojis ==
                 {e \in Kinds : \E r \in DOMAIN g, c \in DOMAIN g : g[r][c] = e}
         IN  IF availableEmojis # {}
             THEN {{p \in [row : DOMAIN g, col : DOMAIN g] : g[p.row][p.col] = targetEmoji} :
                      targetEmoji \in availableEmojis}
             ELSE {{}}
    ELSE {{}}

getSpecialEmojiEffect(g, row, col, type) ==
    IF type = "striped"
    THEN {{Pos(row, c) : c \in DOMAIN g}, {Pos(r, col) : r \in DOMAIN g}}
    ELSE IF type = "bomb"
    THEN {{p \in [row : (row - 1)..(row + 1), col : (col - 1)..(col + 1)] :
              isValidPosition(g, p.row, p.col)}}
    ELSE IF type = "rainbow"
    THEN LET availableEmojis ==
                 {e \in Kinds : \E r \in DOMAIN g, c \in DOMAIN g : g[r][c] = e}
         IN  IF availableEmojis # {}
             THEN {{p \in [row : DOMAIN g, col : DOMAIN g] : g[p.row][p.col] = targetEmoji} :
                      targetEmoji \in availableEmojis}
             ELSE {{}}
    ELSE {{}}

getSpecialType(emoji) ==
    IF \E t \in SpecialTypes : specialEmojis[t] = emoji
    THEN CHOOSE t \in SpecialTypes : specialEmojis[t] = emoji
    ELSE Null

getState(g) == [r \in DOMAIN g |-> [c \in DOMAIN g[r] |-> g[r][c]]]

\* ----------------------------------------------------------- MatchDetector
maxComboMultiplier == 8

\* The while loop counting consecutive equal emojis along a row.
RECURSIVE HorizontalRun(_, _, _, _, _)
HorizontalRun(g, row, currentCol, emoji, matchLength) ==
    IF currentCol < Size(g) /\ getEmoji(g, row, currentCol) = emoji
    THEN HorizontalRun(g, row, currentCol + 1, emoji, matchLength + 1)
    ELSE matchLength

\* The while loop counting consecutive equal emojis down a column.
RECURSIVE VerticalRun(_, _, _, _, _)
VerticalRun(g, currentRow, col, emoji, matchLength) ==
    IF currentRow < Size(g) /\ getEmoji(g, currentRow, col) = emoji
    THEN VerticalRun(g, currentRow + 1, col, emoji, matchLength + 1)
    ELSE matchLength

\* The cells of a run that are not yet in visited, in run order.
UnvisitedPositions(cells, visited) ==
    LET unvisited(pos) == pos \notin visited
    IN  SelectSeq(cells, unvisited)

SeqToSet(s) == {s[i] : i \in 1..Len(s)}

\* findMatches, horizontal pass: st = [matches, visited] is the loop state.
RECURSIVE HorizontalScan(_, _, _, _)
HorizontalScan(g, row, col, st) ==
    IF row >= Size(g) THEN st
    ELSE IF col >= Size(g) - 2 THEN HorizontalScan(g, row + 1, 0, st)
    ELSE
      LET emoji == getEmoji(g, row, col) IN
      IF emoji = Null \/ isSpecialEmoji(emoji)
      THEN HorizontalScan(g, row, col + 1, st)
      ELSE
        LET matchLength == HorizontalRun(g, row, col + 1, emoji, 1)
            run == [i \in 1..matchLength |-> Pos(row, col + i - 1)]
            positions == UnvisitedPositions(run, st.visited)
            match == [type |-> "horizontal", emoji |-> emoji, positions |-> positions,
                      length |-> matchLength, row |-> row,
                      startCol |-> col, endCol |-> col + matchLength - 1]
        IN  IF matchLength >= 3
            THEN HorizontalScan(g, row, col + matchLength,
                    [matches |-> IF Len(positions) > 0
                                 THEN Append(st.matches, match)
                                 ELSE st.matches,
                     visited |-> st.visited \cup SeqToSet(positions)])
            ELSE HorizontalScan(g, row, col + 1, st)

\* findMatches, vertical pass, continuing with the same matches and visited.
RECURSIVE VerticalScan(_, _, _, _)
VerticalScan(g, col, row, st) ==
    IF col >= Size(g) THEN st
    ELSE IF row >= Size(g) - 2 THEN VerticalScan(g, col + 1, 0, st)
    ELSE
      LET emoji == getEmoji(g, row, col) IN
      IF emoji = Null \/ isSpecialEmoji(emoji)
      THEN VerticalScan(g, col, row + 1, st)
      ELSE
        LET matchLength == VerticalRun(g, row + 1, col, emoji, 1)
            run == [i \in 1..matchLength |-> Pos(row + i - 1, col)]
            positions == UnvisitedPositions(run, st.visited)
            match == [type |-> "vertical", emoji |-> emoji, positions |-> positions,
                      length |-> matchLength, col |-> col,
                      startRow |-> row, endRow |-> row + matchLength - 1]
        IN  IF matchLength >= 3
            THEN VerticalScan(g, col, row + matchLength,
                    [matches |-> IF Len(positions) > 0
                                 THEN Append(st.matches, match)
                                 ELSE st.matches,
                     visited |-> st.visited \cup SeqToSet(positions)])
            ELSE VerticalScan(g, col, row + 1, st)

findMatches(g) ==
    VerticalScan(g, 0, 0,
        HorizontalScan(g, 0, 0, [matches |-> <<>>, visited |-> {}])).matches

\* The list without the positions that already occur earlier in it.
RECURSIVE UniquePositions(_, _)
UniquePositions(positions, posSet) ==
    IF positions = <<>> THEN <<>>
    ELSE IF Head(positions) \in posSet
         THEN UniquePositions(Tail(positions), posSet)
         ELSE <<Head(positions)>>
              \o UniquePositions(Tail(positions), posSet \cup {Head(positions)})

getShapeType(hMatch, vMatch) ==
    LET totalLength == hMatch.length + vMatch.length - 1
    IN  IF totalLength >= 5 THEN "T" ELSE "L"

Intersects(hMatch, vMatch) ==
    /\ hMatch.row >= vMatch.startRow /\ hMatch.row <= vMatch.endRow
    /\ vMatch.col >= hMatch.startCol /\ vMatch.col <= hMatch.endCol
    /\ hMatch.emoji = vMatch.emoji

ShapedMatch(hMatch, vMatch) ==
    [type |-> "shaped", subType |-> getShapeType(hMatch, vMatch),
     emoji |-> hMatch.emoji,
     positions |-> UniquePositions(hMatch.positions \o vMatch.positions, {}),
     intersection |-> Pos(hMatch.row, vMatch.col),
     horizontalMatch |-> hMatch, verticalMatch |-> vMatch]

IsType(t, m) == m.type = t

\* The inner loop of findShapedMatches over the vertical matches.
RECURSIVE ShapedWith(_, _)
ShapedWith(hMatch, verticalMatches) ==
    IF verticalMatches = <<>> THEN <<>>
    ELSE (IF Intersects(hMatch, Head(verticalMatches))
          THEN <<ShapedMatch(hMatch, Head(verticalMatches))>>
          ELSE <<>>)
         \o ShapedWith(hMatch, Tail(verticalMatches))

\* The outer loop of findShapedMatches over the horizontal matches.
RECURSIVE ShapedOver(_, _)
ShapedOver(horizontalMatches, verticalMatches) ==
    IF horizontalMatches = <<>> THEN <<>>
    ELSE ShapedWith(Head(horizontalMatches), verticalMatches)
         \o ShapedOver(Tail(horizontalMatches), verticalMatches)

\* findShapedMatches reads the matches of the last findMatches call.
findShapedMatches(last) ==
    LET isH(m) == IsType("horizontal", m)
        isV(m) == IsType("vertical", m)
    IN  ShapedOver(SelectSeq(last, isH), SelectSeq(last, isV))

getMiddlePosition(match) ==
    IF Len(match.positions) = 0 THEN Null
    ELSE match.positions[(Len(match.positions) \div 2) + 1]

\* The special emoji of one match: <<>> or a one-element list.
SpecialFor(match) ==
    IF match.type = "shaped"
    THEN <<[type |-> "bomb", position |-> match.intersection,
            originalMatch |-> match]>>
    ELSE IF match.length = 4
    THEN <<[type |-> "striped", position |-> getMiddlePosition(match),
            originalMatch |-> match]>>
    ELSE IF match.length >= 5
    THEN <<[type |-> "rainbow", position |-> getMiddlePosition(match),
            originalMatch |-> match]>>
    ELSE <<>>

RECURSIVE createSpecialEmojis(_)
createSpecialEmojis(matches) ==
    IF matches = <<>> THEN <<>>
    ELSE SpecialFor(Head(matches)) \o createSpecialEmojis(Tail(matches))

matchScoreFlat(match) == Len(match.positions) * 10

matchScore(match) ==
    IF match.type = "shaped" THEN Len(match.positions) * 25
    ELSE IF match.length = 3 THEN Len(match.positions) * 10
    ELSE IF match.length = 4 THEN Len(match.positions) * 20
    ELSE IF match.length >= 5 THEN Len(match.positions) * 50
    ELSE 0

RECURSIVE BaseScore(_)
BaseScore(matches) ==
    IF matches = <<>> THEN 0
    ELSE matchScore(Head(matches)) + BaseScore(Tail(matches))

\* calculateScore; the products are integers, so Math.floor changes nothing.
calculateScore(matches, specials, combo) ==
    LET baseScore == BaseScore(matches)
        specialBonus == Len(specials) * 100
    IN  [baseScore |-> baseScore,
         specialBonus |-> specialBonus,
         multiplier |-> combo,
         totalScore |-> (baseScore + specialBonus) * combo]

Min(a, b) == IF a < b THEN a ELSE b

updateComboMultiplierUncapped(combo, hasMatchesNow) ==
    IF hasMatchesNow THEN combo + 1 ELSE 1

updateComboMultiplier(combo, hasMatches) ==
    IF hasMatches THEN Min(combo + 1, maxComboMultiplier) ELSE 1

getAllMatchPositions(matches) ==
    LET RECURSIVE Concat(_)
        Concat(ms) == IF ms = <<>> THEN <<>>
                      ELSE Head(ms).positions \o Concat(Tail(ms))
    IN  UniquePositions(Concat(matches), {})

\* wouldCreateMatch: the counts to the left, right, up and down of (row, col).
RECURSIVE CountDir(_, _, _, _, _, _)
CountDir(g, row, col, dr, dc, emoji) ==
    IF isValidPosition(g, row, col) /\ g[row][col] = emoji
    THEN 1 + CountDir(g, row + dr, col + dc, dr, dc, emoji)
    ELSE 0

wouldCreateMatch(g, row, col, emoji) ==
    LET horizontalCount == 1 + CountDir(g, row, col - 1, 0, -1, emoji)
                             + CountDir(g, row, col + 1, 0, 1, emoji)
        verticalCount == 1 + CountDir(g, row - 1, col, -1, 0, emoji)
                           + CountDir(g, row + 1, col, 1, 0, emoji)
    IN  horizontalCount >= 3 \/ verticalCount >= 3

hasMatches(g) ==
    \E row \in DOMAIN g : \E col \in DOMAIN g :
        wouldCreateMatch(g, row, col, g[row][col])

\* getPossibleMoves, as the set of the recorded moves: every swap is undone
\* before the next one is tried, so each is tried on the same grid.
getPossibleMoves(g) ==
    {m \in [pos1 : [row : DOMAIN g, col : DOMAIN g],
            pos2 : [row : DOMAIN g, col : DOMAIN g]] :
        /\ \/ (m.pos2.row = m.pos1.row /\ m.pos2.col = m.pos1.col + 1)
           \/ (m.pos2.row = m.pos1.row + 1 /\ m.pos2.col = m.pos1.col)
        /\ hasMatches(swapEmojis(g, m.pos1, m.pos2))}

\* getPossibleMoves step by step: one trial swap with its swap back, and the
\* loops over the cells; st = [grid, moves] is the board and the list so far.
TryMove(st, pos1, pos2) ==
    LET swapped == swapEmojis(st.grid, pos1, pos2)
    IN  [grid |-> swapEmojis(swapped, pos1, pos2),
         moves |-> IF hasMatches(swapped)
                   THEN Append(st.moves, [pos1 |-> pos1, pos2 |-> pos2])
                   ELSE st.moves]

RECURSIVE PossibleMovesFrom(_, _, _)
PossibleMovesFrom(st, row, col) ==
    IF row >= Size(st.grid) THEN st
    ELSE IF col >= Size(st.grid) THEN PossibleMovesFrom(st, row + 1, 0)
    ELSE LET right == IF col < Size(st.grid) - 1
                      THEN TryMove(st, Pos(row, col), Pos(row, col + 1))
                      ELSE st
             down == IF row < Size(st.grid) - 1
                     THEN TryMove(right, Pos(row, col), Pos(row + 1, col))
                     ELSE right
         IN  PossibleMovesFrom(down, row, col + 1)

\* getRandomEmoji, for the run of random draws that starts with draw: the
\* first draw is returned where the match test is skipped or passes, a later
\* draw that passes the test where there is one, and the first draw again
\* when the 50 attempts are used up.
getRandomEmoji(g, row, col, draw) ==
    IF row < 2 /\ col < 2 THEN draw
    ELSE IF ~wouldCreateMatch(g, row, col, draw) THEN draw
    ELSE IF \E e \in Kinds : ~wouldCreateMatch(g, row, col, e)
    THEN CHOOSE e \in Kinds : ~wouldCreateMatch(g, row, col, e)
    ELSE draw

\* One pass of removeInitialMatches over the cells from (row, col) on, in
\* row-major order; st = [grid, hasMatches].
RECURSIVE RepairPass(_, _, _, _)
RepairPass(st, row, col, draw) ==
    IF row >= Size(st.grid) THEN st
    ELSE IF col >= Size(st.grid) THEN RepairPass(st, row + 1, 0, draw)
    ELSE IF wouldCreateMatch(st.grid, row, col, st.grid[row][col])
    THEN RepairPass([grid |-> [st.grid EXCEPT ![row][col] =
                                  getRandomEmoji(st.grid, row, col, draw)],
                     hasMatches |-> TRUE],
                    row, col + 1, draw)
    ELSE RepairPass(st, row, col + 1, draw)

RepairPassLimit == 100

\* The while loop of removeInitialMatches; seen[i] is the grid before pass i.
\* With the draws fixed a pass is a function of the grid, so once a grid
\* comes back the grid after the last pass is read off the cycle.
RECURSIVE RepairLoop(_, _)
RepairLoop(seen, draw) ==
    LET attempts == Len(seen) - 1
        pass == RepairPass([grid |-> seen[Len(seen)], hasMatches |-> FALSE], 0, 0, draw)
    IN  IF attempts >= RepairPassLimit THEN seen[Len(seen)]
        ELSE IF ~pass.hasMatches THEN pass.grid
        ELSE IF \E j \in 1..Len(seen) : seen[j] = pass.grid
        THEN LET first == CHOOSE j \in 1..Len(seen) : seen[j] = pass.grid
                 period == Len(seen) + 1 - first
             IN  (seen \o <<pass.grid>>)
                     [first + ((RepairPassLimit + 1 - first) % period)]
        ELSE RepairLoop(Append(seen, pass.grid), draw)

removeInitialMatches(g, draw) == RepairLoop(<<g>>, draw)

\* The permutations of the cells that shuffle is taken to draw: the cells in
\* row-major order, moved on by 0 .. ShuffleShifts - 1 places.
ShuffleShifts == 3

\* shuffle: the emojis are collected, permuted, written back and repaired.
shuffle(g, shift, draw) ==
    LET n == Size(g)
        allEmojis == [i \in 0..(n * n - 1) |-> g[i \div n][i % n]]
        shuffled == [i \in 0..(n * n - 1) |-> allEmojis[(i + shift) % (n * n)]]
    IN  removeInitialMatches(
            [r \in 0..(n - 1) |-> [c \in 0..(n - 1) |-> shuffled[r * n + c]]], draw)

\* The boards init is taken to draw: pairs of equal emojis along the rows,
\* one kind further from row to row and starting shift cells into a pair.  No
\* cell is in a run of three, so removeInitialMatches changes nothing.
PairBoard(n, shift) ==
    [r \in 0..(n - 1) |-> [c \in 0..(n - 1) |->
        emojis[((((c + shift) \div 2) + r) % NumKinds) + 1]]]

\* How many of these boards a new game draws from.
StartShifts == 1

Boards(n) ==
    {g \in {PairBoard(n, shift) : shift \in 0..(StartShifts - 1)} : ~hasMatches(g)}

\* ---------------------------------------------------------- EmojiCrushGame
\* Level 1 of initializeLevelConfig, scaled down (the source: goal 500,
\* moves 50).
Level1Goal == 3000
Level1Moves == 2
\* saveMove keeps this many entries.
HistoryLimit == 5
\* Cascade steps explored within one move, and the accepted swaps and hammer
\* uses explored in one run.
MaxCascade == 3
MaxPlays == 2
\* The same for the runs that follow one move through a long cascade.
DeepCascade == 9
DeepPlays == 1

levelConfig(levelNumber) ==
    [level |-> levelNumber, goal |-> Level1Goal, moves |-> Level1Moves]

NoBoard == <<>>
NoTile == [row |-> -1, col |-> -1]
NoPowerUp == "none"
PowerUpTypes == {"hammer", "shuffle", "undo"}

VARIABLES
    gameState,        \* 'menu', 'playing', 'paused', 'gameOver', 'levelComplete'
    score, level, moves, goal,
    selectedTile,     \* a position, or NoTile for null
    isProcessing,
    powerUps,         \* remaining uses per power-up
    activePowerUp,    \* a power-up type, or NoPowerUp for null
    moveHistory,      \* the entries pushed by saveMove, oldest first
    grid,             \* board.grid, NoBoard while board is null
    lastMatches,      \* matchDetector.lastMatches
    comboMultiplier,  \* matchDetector.comboMultiplier
    pc,               \* "idle", or "cascade" inside processCascadingMatches
    cascadeCount, totalScore,   \* locals of processCascadingMatches
    step,             \* allMatches, specialEmojis and scoreData of the last cascade
                      \* step (scored: the special emojis given to calculateScore)
                      \* and the positions cleared so far in this move
    plays,            \* accepted swaps and hammer uses so far (in ScanSpec: the
                      \* setEmoji calls so far)
    lastOp,           \* the last operation that completed, for the properties
    before            \* grid, score, moves, ... when the last swap was requested

gameVars == <<gameState, score, level, moves, goal, selectedTile, isProcessing,
              powerUps, activePowerUp, moveHistory>>
detectorVars == <<lastMatches, comboMultiplier>>
cascadeVars == <<pc, cascadeCount, totalScore, step>>
vars == <<gameVars, grid, detectorVars, cascadeVars, plays, lastOp, before>>

NoStep ==
    [allMatches |-> <<>>, specialEmojis |-> <<>>,
     scored |-> <<>>,
     scoreData |-> [baseScore |-> 0, specialBonus |-> 0, multiplier |-> 0, totalScore |-> 0],
     cleared |-> {}]
NoBefore == [requested |-> FALSE]

\* The constructor: menu, no board yet.
Init ==
    /\ gameState = "menu"
    /\ score = 0 /\ level = 1 /\ moves = 30 /\ goal = 1000
    /\ selectedTile = NoTile
    /\ isProcessing = FALSE
    /\ powerUps = [hammer |-> 3, shuffle |-> 2, undo |-> 5]
    /\ activePowerUp = NoPowerUp
    /\ moveHistory = <<>>
    /\ grid = NoBoard
    /\ lastMatches = <<>>
    /\ comboMultiplier = 1
    /\ pc = "idle" /\ cascadeCount = 0 /\ totalScore = 0 /\ step = NoStep
    /\ plays = 0
    /\ lastOp = "construct"
    /\ before = NoBefore

\* The locals of processCascadingMatches are gone once the next operation runs.
ClearLocals == pc' = "idle" /\ cascadeCount' = 0 /\ totalScore' = 0 /\ step' = NoStep

loadLevel(levelNumber) ==
    /\ level' = levelNumber
    /\ goal' = levelConfig(levelNumber).goal
    /\ moves' = levelConfig(levelNumber).moves
    /\ \E g \in Boards(GameSize) : grid' = g
    /\ comboMultiplier' = 1

\* startNewGame.  With a board already present the call of board.setEmojiMode,
\* which GameBoard does not define, throws after the first assignments.
StartNewGame ==
    /\ pc = "idle"
    /\ gameState' = "playing"
    /\ score' = 0
    /\ selectedTile' = NoTile
    /\ isProcessing' = FALSE
    /\ activePowerUp' = NoPowerUp
    /\ moveHistory' = <<>>
    /\ IF grid = NoBoard
       THEN loadLevel(1)
       ELSE /\ level' = 1
            /\ UNCHANGED <<goal, moves, grid, comboMultiplier>>
    /\ UNCHANGED <<powerUps, lastMatches, plays>>
    /\ ClearLocals
    /\ lastOp' = "startNewGame"
    /\ before' = NoBefore

\* setActivePowerUp; the mutant does not look at the counter.
SetActivePowerUpUnchecked(powerUpType) ==
    /\ pc = "idle"
    /\ activePowerUp' = IF activePowerUp = powerUpType THEN NoPowerUp ELSE powerUpType
    /\ UNCHANGED <<gameState, score, level, moves, goal, selectedTile, isProcessing,
                   powerUps, moveHistory, grid, detectorVars, cascadeVars,
                   plays, lastOp, before>>

SetActivePowerUp(powerUpType) ==
    /\ pc = "idle"
    /\ powerUps[powerUpType] > 0
    /\ activePowerUp' = IF activePowerUp = powerUpType THEN NoPowerUp ELSE powerUpType
    /\ UNCHANGED <<gameState, score, level, moves, goal, selectedTile, isProcessing,
                   powerUps, moveHistory, grid, detectorVars, cascadeVars,
                   plays, lastOp, before>>

\* The length of levelConfig.
NumLevels == 50

\* nextLevel, called by the button of the level-complete modal.  It leaves
\* score, selectedTile, isProcessing, activePowerUp and moveHistory alone.
NextLevel ==
    /\ pc = "idle"
    /\ gameState = "levelComplete"
    /\ IF level < NumLevels
       THEN /\ loadLevel(level + 1)
            /\ gameState' = "playing"
       ELSE UNCHANGED <<level, goal, moves, grid, comboMultiplier, gameState>>
    /\ UNCHANGED <<score, selectedTile, isProcessing, powerUps, activePowerUp,
                   moveHistory, lastMatches, plays>>
    /\ ClearLocals
    /\ lastOp' = "nextLevel"
    /\ before' = NoBefore

\* saveMove: push the entry, then drop the oldest beyond the limit.  The
\* mutant drops the newest.
saveMoveKeepsOldest(history, g, pos1, pos2) ==
    LET pushed == Append(history,
                    [boardState |-> getState(g), pos1 |-> pos1, pos2 |-> pos2,
                     score |-> score, moves |-> moves + 1,
                     comboMultiplier |-> comboMultiplier])
    IN  IF Len(pushed) > HistoryLimit THEN SubSeq(pushed, 1, HistoryLimit) ELSE pushed

saveMove(history, g, pos1, pos2) ==
    LET pushed == Append(history,
                    [boardState |-> getState(g), pos1 |-> pos1, pos2 |-> pos2,
                     score |-> score, moves |-> moves + 1,
                     comboMultiplier |-> comboMultiplier])
    IN  IF Len(pushed) > HistoryLimit THEN Tail(pushed) ELSE pushed

Snapshot(pos1, pos2) ==
    [requested |-> TRUE, pos1 |-> pos1, pos2 |-> pos2, grid |-> grid,
     score |-> score, moves |-> moves, comboMultiplier |-> comboMultiplier,
     moveHistory |-> moveHistory]

\* attemptSwap once the swap has produced matches: saveMove, the move is
\* counted and processCascadingMatches is entered.  The mutant forgets to
\* count the move.
acceptSwapUncounted(swapped, matches, pos1, pos2) ==
    /\ grid' = swapped
    /\ lastMatches' = matches
    /\ moveHistory' = saveMove(moveHistory, swapped, pos1, pos2)
    /\ moves' = moves
    /\ selectedTile' = NoTile
    /\ isProcessing' = TRUE
    /\ pc' = "cascade" /\ cascadeCount' = 0 /\ totalScore' = 0 /\ step' = NoStep
    /\ lastOp' = "swapAccepted"
    /\ UNCHANGED <<gameState, score, level, goal, powerUps, activePowerUp,
                   comboMultiplier>>

acceptSwap(swapped, matches, pos1, pos2) ==
    /\ grid' = swapped
    /\ lastMatches' = matches
    /\ moveHistory' = saveMove(moveHistory, swapped, pos1, pos2)
    /\ moves' = moves - 1
    /\ selectedTile' = NoTile
    /\ isProcessing' = TRUE
    /\ pc' = "cascade" /\ cascadeCount' = 0 /\ totalScore' = 0 /\ step' = NoStep
    /\ lastOp' = "swapAccepted"
    /\ UNCHANGED <<gameState, score, level, goal, powerUps, activePowerUp,
                   comboMultiplier>>

\* attemptSwap up to the call of processCascadingMatches.
attemptSwap(pos1, pos2, maxPlays) ==
    LET swapped == swapEmojis(grid, pos1, pos2)
        matches == findMatches(swapped)
        shapedMatches == findShapedMatches(matches)
        allMatches == matches \o shapedMatches
    IN
    /\ before' = Snapshot(pos1, pos2)
    /\ IF moves <= 0
       THEN /\ lastOp' = "swapRefused"
            /\ ClearLocals
            /\ UNCHANGED <<gameVars, grid, detectorVars, plays>>
       ELSE IF Len(allMatches) = 0
       THEN /\ grid' = swapEmojis(swapped, pos1, pos2)
            /\ lastMatches' = matches
            /\ lastOp' = "swapRejected"
            /\ ClearLocals
            /\ UNCHANGED <<gameVars, comboMultiplier, plays>>
       ELSE /\ plays < maxPlays
            /\ plays' = plays + 1
            /\ acceptSwap(swapped, matches, pos1, pos2)

undoLastMoveComboAhead ==
    IF Len(moveHistory) = 0
    THEN /\ lastOp' = "undoFailed"
         /\ before' = NoBefore
         /\ UNCHANGED <<gameVars, grid, detectorVars, plays>>
    ELSE LET lastMove == moveHistory[Len(moveHistory)] IN
         /\ moveHistory' = SubSeq(moveHistory, 1, Len(moveHistory) - 1)
         /\ grid' = getState(lastMove.boardState)
         /\ score' = lastMove.score
         /\ moves' = lastMove.moves
         /\ comboMultiplier' = lastMove.comboMultiplier + 1
         /\ lastOp' = IF lastOp = "swapSettled" THEN "swapUndone" ELSE "undo"
         /\ before' = IF lastOp = "swapSettled" THEN before ELSE NoBefore
         /\ UNCHANGED <<gameState, level, goal, selectedTile, isProcessing,
                        powerUps, activePowerUp, lastMatches, plays>>

\* undoLastMove
undoLastMove ==
    IF Len(moveHistory) = 0
    THEN /\ lastOp' = "undoFailed"
         /\ before' = NoBefore
         /\ UNCHANGED <<gameVars, grid, detectorVars, plays>>
    ELSE LET lastMove == moveHistory[Len(moveHistory)] IN
         /\ moveHistory' = SubSeq(moveHistory, 1, Len(moveHistory) - 1)
         /\ grid' = getState(lastMove.boardState)
         /\ score' = lastMove.score
         /\ moves' = lastMove.moves
         /\ comboMultiplier' = lastMove.comboMultiplier
         /\ lastOp' = IF lastOp = "swapSettled" THEN "swapUndone" ELSE "undo"
         /\ before' = IF lastOp = "swapSettled" THEN before ELSE NoBefore
         /\ UNCHANGED <<gameState, level, goal, selectedTile, isProcessing,
                        powerUps, activePowerUp, lastMatches, plays>>

\* usePowerUp; choice holds the random draws of fillEmpty, shift and draw
\* those of shuffle.
usePowerUp(row, col, maxPlays) ==
    IF activePowerUp = NoPowerUp \/ powerUps[activePowerUp] <= 0
    THEN /\ lastOp' = "powerUpRefused"
         /\ before' = NoBefore
         /\ UNCHANGED <<gameVars, grid, detectorVars, plays>>
    ELSE IF activePowerUp = "undo"
    THEN undoLastMove
    ELSE IF activePowerUp = "shuffle"
    THEN /\ plays < maxPlays
         /\ plays' = plays + 1
         /\ \E shift \in 0..(ShuffleShifts - 1), draw \in Kinds :
                grid' = shuffle(grid, shift, draw)
         /\ powerUps' = [powerUps EXCEPT ![activePowerUp] = @ - 1]
         /\ activePowerUp' = NoPowerUp
         /\ lastOp' = "shuffle"
         /\ before' = NoBefore
         /\ UNCHANGED <<gameState, score, level, moves, goal, selectedTile,
                        isProcessing, moveHistory, detectorVars>>
    ELSE /\ activePowerUp = "hammer"
         /\ plays < maxPlays
         /\ plays' = plays + 1
         /\ LET fallen == applyGravity(setEmoji(grid, row, col, Null)) IN
            \E choice \in Draws(EmptyCells(fallen)) :
                grid' = fillEmpty(fallen, choice)
         /\ powerUps' = [powerUps EXCEPT ![activePowerUp] = @ - 1]
         /\ activePowerUp' = NoPowerUp
         /\ lastOp' = "hammer"
         /\ before' = NoBefore
         /\ UNCHANGED <<gameState, score, level, moves, goal, selectedTile,
                        isProcessing, moveHistory, detectorVars>>

\* handleTileClick
\* The mutant of handleTileClick does not test gameState.
HandleTileClickAnyState(row, col, maxPlays) ==
    /\ pc = "idle"
    /\ IF isProcessing
       THEN /\ lastOp' = "clickRejected"
            /\ before' = NoBefore
            /\ ClearLocals
            /\ UNCHANGED <<gameVars, grid, detectorVars, plays>>
       ELSE IF activePowerUp # NoPowerUp
       THEN usePowerUp(row, col, maxPlays) /\ ClearLocals
       ELSE IF selectedTile = NoTile
       THEN /\ selectedTile' = Pos(row, col)
            /\ lastOp' = "select"
            /\ before' = NoBefore
            /\ ClearLocals
            /\ UNCHANGED <<gameState, score, level, moves, goal, isProcessing,
                           powerUps, activePowerUp, moveHistory, grid, detectorVars,
                           plays>>
       ELSE IF selectedTile.row = row /\ selectedTile.col = col
       THEN /\ selectedTile' = NoTile
            /\ lastOp' = "deselect"
            /\ before' = NoBefore
            /\ ClearLocals
            /\ UNCHANGED <<gameState, score, level, moves, goal, isProcessing,
                           powerUps, activePowerUp, moveHistory, grid, detectorVars,
                           plays>>
       ELSE IF areAdjacent(selectedTile, Pos(row, col))
       THEN attemptSwap(selectedTile, Pos(row, col), maxPlays)
       ELSE /\ selectedTile' = Pos(row, col)
            /\ lastOp' = "reselect"
            /\ before' = NoBefore
            /\ ClearLocals
            /\ UNCHANGED <<gameState, score, level, moves, goal, isProcessing,
                           powerUps, activePowerUp, moveHistory, grid, detectorVars,
                           plays>>

HandleTileClick(row, col, maxPlays) ==
    /\ pc = "idle"
    /\ IF isProcessing \/ gameState # "playing"
       THEN /\ lastOp' = "clickRejected"
            /\ before' = NoBefore
            /\ ClearLocals
            /\ UNCHANGED <<gameVars, grid, detectorVars, plays>>
       ELSE IF activePowerUp # NoPowerUp
       THEN usePowerUp(row, col, maxPlays) /\ ClearLocals
       ELSE IF selectedTile = NoTile
       THEN /\ selectedTile' = Pos(row, col)
            /\ lastOp' = "select"
            /\ before' = NoBefore
            /\ ClearLocals
            /\ UNCHANGED <<gameState, score, level, moves, goal, isProcessing,
                           powerUps, activePowerUp, moveHistory, grid, detectorVars,
                           plays>>
       ELSE IF selectedTile.row = row /\ selectedTile.col = col
       THEN /\ selectedTile' = NoTile
            /\ lastOp' = "deselect"
            /\ before' = NoBefore
            /\ ClearLocals
            /\ UNCHANGED <<gameState, score, level, moves, goal, isProcessing,
                           powerUps, activePowerUp, moveHistory, grid, detectorVars,
                           plays>>
       ELSE IF areAdjacent(selectedTile, Pos(row, col))
       THEN attemptSwap(selectedTile, Pos(row, col), maxPlays)
       ELSE /\ selectedTile' = Pos(row, col)
            /\ lastOp' = "reselect"
            /\ before' = NoBefore
            /\ ClearLocals
            /\ UNCHANGED <<gameState, score, level, moves, goal, isProcessing,
                           powerUps, activePowerUp, moveHistory, grid, detectorVars,
                           plays>>

\* The special emojis of a step written onto the board, in list order.
RECURSIVE placeSpecials(_, _)
placeSpecials(g, specials) ==
    IF specials = <<>> THEN g
    ELSE placeSpecials(
            createSpecialEmoji(g, Head(specials).position.row,
                               Head(specials).position.col, Head(specials).type),
            Tail(specials))

\* The exit test of the while loop of processCascadingMatches.  The mutant
\* also leaves the loop when a single match is left.
noMoreMatchesOrOne(allMatches) == Len(allMatches) <= 1

noMoreMatches(allMatches) == Len(allMatches) = 0

\* One iteration of the while loop of processCascadingMatches that finds matches.
CascadeStep(maxCascade) ==
    /\ pc = "cascade"
    /\ cascadeCount < maxCascade
    /\ LET matches == findMatches(grid)
           shapedMatches == findShapedMatches(matches)
           allMatches == matches \o shapedMatches
           combo == updateComboMultiplier(comboMultiplier, TRUE)
           specials == createSpecialEmojis(allMatches)
           scoreData == calculateScore(allMatches, specials, combo)
           allPositions == getAllMatchPositions(allMatches)
           fallen == applyGravity(placeSpecials(removeEmojis(grid, allPositions), specials))
       IN  /\ ~noMoreMatches(allMatches)
           /\ lastMatches' = matches
           /\ cascadeCount' = cascadeCount + 1
           /\ comboMultiplier' = combo
           /\ totalScore' = totalScore + scoreData.totalScore
           /\ step' = [allMatches |-> allMatches, specialEmojis |-> specials,
                        scored |-> specials, scoreData |-> scoreData,
                        cleared |-> step.cleared \cup SeqToSet(allPositions)]
           /\ \E choice \in Draws(EmptyCells(fallen)) :
                  grid' = fillEmpty(fallen, choice)
    /\ UNCHANGED <<gameVars, pc, plays, lastOp, before>>

\* The iteration that finds no match: the loop ends, processCascadingMatches
\* adds the score and resets the combo, attemptSwap clears isProcessing and
\* runs checkGameEnd (completeLevel or endGame).
CascadeEndBusy ==
    /\ pc = "cascade"
    /\ noMoreMatches(findMatches(grid) \o findShapedMatches(findMatches(grid)))
    /\ lastMatches' = findMatches(grid)
    /\ comboMultiplier' = updateComboMultiplier(comboMultiplier, FALSE)
    /\ score' = score + totalScore
    /\ pc' = "idle"
    /\ lastOp' = "swapSettled"
    /\ UNCHANGED <<gameState, isProcessing, level, moves, goal, selectedTile,
                   powerUps, activePowerUp, moveHistory, grid, cascadeCount,
                   totalScore, step, plays, before>>

CascadeEnd ==
    /\ pc = "cascade"
    /\ LET matches == findMatches(grid)
           shapedMatches == findShapedMatches(matches)
           allMatches == matches \o shapedMatches
           scored == score + totalScore
       IN  /\ noMoreMatches(allMatches)
           /\ lastMatches' = matches
           /\ comboMultiplier' = updateComboMultiplier(comboMultiplier, FALSE)
           /\ isProcessing' = FALSE
           /\ IF scored >= goal
              THEN /\ gameState' = "levelComplete"
                   /\ score' = scored + moves * 50
              ELSE IF moves <= 0 /\ getPossibleMoves(grid) = {}
              THEN /\ gameState' = "gameOver"
                   /\ score' = scored
              ELSE /\ gameState' = gameState
                   /\ score' = scored
    /\ pc' = "idle"
    /\ lastOp' = "swapSettled"
    /\ UNCHANGED <<level, moves, goal, selectedTile, powerUps, activePowerUp,
                   moveHistory, grid, cascadeCount, totalScore, step, plays, before>>

Cells == 0..(GameSize - 1)

\* The power-ups the runs of Spec and DeepSpec select.
PowerUpChoices == {"undo", "hammer"}

NextWith(maxCascade, maxPlays) ==
    \/ StartNewGame
    \/ \E t \in PowerUpChoices : SetActivePowerUp(t)
    \/ \E row \in Cells, col \in Cells : HandleTileClick(row, col, maxPlays)
    \/ CascadeStep(maxCascade)
    \/ CascadeEnd

Next == NextWith(MaxCascade, MaxPlays)

Spec == Init /\ [][Next]_vars

\* One move followed through a long cascade.
DeepNext == NextWith(DeepCascade, DeepPlays)

DeepSpec == Init /\ [][DeepNext]_vars

\* The runs that follow the while loop of processCascadingMatches for as long
\* as it goes on.  The loop reads neither cascadeCount nor totalScore, and
\* beyond LiveCascade iterations the two locals are no longer followed.
LiveCascade == 2
LivePlays == 1

CascadeStepOn(maxCascade) ==
    /\ pc = "cascade"
    /\ cascadeCount >= maxCascade
    /\ \E matches \in {findMatches(grid)} :
       \E allMatches \in {matches \o findShapedMatches(matches)} :
       \E specials \in {createSpecialEmojis(allMatches)} :
       \E allPositions \in {getAllMatchPositions(allMatches)} :
           LET combo == updateComboMultiplier(comboMultiplier, TRUE)
               fallen == applyGravity(
                             placeSpecials(removeEmojis(grid, allPositions), specials))
           IN  /\ ~noMoreMatches(allMatches)
               /\ lastMatches' = matches
               /\ comboMultiplier' = combo
               /\ step' = [allMatches |-> allMatches, specialEmojis |-> specials,
                            scored |-> specials,
                            scoreData |-> calculateScore(allMatches, specials, combo),
                            cleared |-> step.cleared \cup SeqToSet(allPositions)]
               /\ \E choice \in Draws(EmptyCells(fallen)) :
                      grid' = fillEmpty(fallen, choice)
    /\ UNCHANGED <<gameVars, pc, cascadeCount, totalScore, plays, lastOp, before>>

LiveNext ==
    \/ NextWith(LiveCascade, LivePlays)
    \/ CascadeStepOn(LiveCascade)

\* The loop is at a scan that finds matches: an iteration is enabled.
InLoop == pc = "cascade" /\ Len(findMatches(grid)) > 0

\* The loop is at a scan that finds no match: the last iteration's refill
\* left none (an accepted swap always leaves one).
Settled == pc = "cascade" /\ Len(findMatches(grid)) = 0

\* Some refill of the iteration at hand leaves no match on the board.
CanSettle ==
    /\ InLoop
    /\ \E matches \in {findMatches(grid)} :
       \E allMatches \in {matches \o findShapedMatches(matches)} :
       \E fallen \in {applyGravity(placeSpecials(
                           removeEmojis(grid, getAllMatchPositions(allMatches)),
                           createSpecialEmojis(allMatches)))} :
       \E choice \in Draws(EmptyCells(fallen)) :
           Len(findMatches(fillEmpty(fallen, choice))) = 0

\* The loop runs on while it has matches (weak fairness of the iteration),
\* Math.random does not keep away for ever from a refill that can be drawn
\* again and again (strong fairness of the iteration whose refill leaves no
\* match), and the function returns after the scan without a match.  The
\* first two are written with the state predicates the iteration is enabled
\* in and leads to.
LiveSpec ==
    /\ Init /\ [][LiveNext]_vars
    /\ WF_vars(CascadeEnd)
    /\ []<>(~InLoop) \/ []<><<InLoop>>_vars
    /\ <>[](~CanSettle) \/ []<>Settled

\* The runs that play on through the levels, one or two swaps in each, with
\* clicks on two neighbouring tiles and the undo power-up.  The cascades of
\* the first level are followed for HistoryCascade steps, those of the
\* later levels for LaterCascade steps.
HistoryCascade == 3
LaterCascade == 1
HistoryPlays == 6
HistoryClicks == {Pos(1, 1), Pos(1, 2)}

HistoryNext ==
    \/ StartNewGame
    \/ NextLevel
    \/ SetActivePowerUp("undo")
    \/ \E p \in HistoryClicks : HandleTileClick(p.row, p.col, HistoryPlays)
    \/ CascadeStep(IF level = 1 THEN HistoryCascade ELSE LaterCascade)
    \/ CascadeEnd

HistorySpec == Init /\ [][HistoryNext]_vars

\* pauseGame.  The click that calls it is a task of its own: it runs when no
\* attemptSwap is on the stack (processCascadingMatches awaits nothing but
\* settled promises).  The mutant lets it run between two cascade steps.
PauseGameMidCascade ==
    /\ gameState = "playing"
    /\ gameState' = "paused"
    /\ lastOp' = "pause"
    /\ before' = NoBefore
    /\ UNCHANGED <<score, level, moves, goal, selectedTile, isProcessing, powerUps,
                   activePowerUp, moveHistory, grid, detectorVars, cascadeVars, plays>>

PauseGame ==
    /\ pc = "idle"
    /\ gameState = "playing"
    /\ gameState' = "paused"
    /\ lastOp' = "pause"
    /\ before' = NoBefore
    /\ ClearLocals
    /\ UNCHANGED <<score, level, moves, goal, selectedTile, isProcessing, powerUps,
                   activePowerUp, moveHistory, grid, detectorVars, plays>>

\* resumeGame
ResumeGame ==
    /\ pc = "idle"
    /\ gameState = "paused"
    /\ gameState' = "playing"
    /\ lastOp' = "resume"
    /\ before' = NoBefore
    /\ ClearLocals
    /\ UNCHANGED <<score, level, moves, goal, selectedTile, isProcessing, powerUps,
                   activePowerUp, moveHistory, grid, detectorVars, plays>>

\* The runs with every power-up, pause and resume: short cascades, more
\* plays, and the clicks on four cells of the board.
PowerCascade == 1
PowerPlays == 3
PowerRows == 0..1
PowerCols == 1..2

PowerNext ==
    \/ StartNewGame
    \/ \E t \in PowerUpTypes : SetActivePowerUp(t)
    \/ \E row \in PowerRows, col \in PowerCols : HandleTileClick(row, col, PowerPlays)
    \/ CascadeStep(PowerCascade)
    \/ CascadeEnd
    \/ PauseGame
    \/ ResumeGame

PowerSpec == Init /\ [][PowerNext]_vars

TypeOK ==
    /\ gameState \in {"menu", "playing", "paused", "gameOver", "levelComplete"}
    /\ moves \in Nat /\ score \in Nat
    /\ comboMultiplier \in 1..maxComboMultiplier

\* ---------------------------------------------- board and detector alone
\* A GameBoard with its MatchDetector, outside a game: the board is edited
\* with setEmoji, the combo multiplier is stepped, and then the board is
\* scanned and scored the way a cascade step does it.
ScanSize == 5
MaxEdits == 3
ScanShifts == 1

ScanCells == 0..(ScanSize - 1)

ScanInit ==
    /\ gameState = "menu"
    /\ score = 0 /\ level = 1 /\ moves = 30 /\ goal = 1000
    /\ selectedTile = NoTile
    /\ isProcessing = FALSE
    /\ powerUps = [hammer |-> 3, shuffle |-> 2, undo |-> 5]
    /\ activePowerUp = NoPowerUp
    /\ moveHistory = <<>>
    /\ grid \in {PairBoard(ScanSize, shift) : shift \in 0..(ScanShifts - 1)}
    /\ lastMatches = <<>>
    /\ comboMultiplier = 1
    /\ pc = "idle" /\ cascadeCount = 0 /\ totalScore = 0 /\ step = NoStep
    /\ plays = 0
    /\ lastOp = "construct"
    /\ before = NoBefore

BoardSetEmoji(row, col, emoji) ==
    /\ lastOp # "score"
    /\ plays < MaxEdits
    /\ plays' = plays + 1
    /\ grid' = setEmoji(grid, row, col, emoji)
    /\ lastOp' = "setEmoji"
    /\ UNCHANGED <<gameVars, detectorVars, cascadeVars, before>>

DetectorCombo(hasMatchesNow) ==
    /\ lastOp # "score"
    /\ comboMultiplier' = updateComboMultiplier(comboMultiplier, hasMatchesNow)
    /\ lastOp' = "combo"
    /\ UNCHANGED <<gameVars, grid, lastMatches, cascadeVars, plays, before>>

\* findMatches, findShapedMatches, createSpecialEmojis and calculateScore as
\* a cascade step calls them; withSpecials = FALSE leaves calculateScore its
\* default, the empty list.
DetectorScore(withSpecials) ==
    /\ lastOp # "score"
    /\ \E matches \in {findMatches(grid)} :
       \E allMatches \in {matches \o findShapedMatches(matches)} :
       \E specials \in {createSpecialEmojis(allMatches)} :
           LET given == IF withSpecials THEN specials ELSE <<>>
           IN  /\ lastMatches' = matches
               /\ step' = [allMatches |-> allMatches, specialEmojis |-> specials,
                            scored |-> given,
                            scoreData |-> calculateScore(allMatches, given,
                                                         comboMultiplier),
                            cleared |-> {}]
    /\ lastOp' = "score"
    /\ UNCHANGED <<gameVars, grid, comboMultiplier, pc, cascadeCount, totalScore,
                   plays, before>>

ScanNext ==
    \/ \E row \in ScanCells, col \in ScanCells, emoji \in Kinds :
           BoardSetEmoji(row, col, emoji)
    \/ \E hasMatchesNow \in BOOLEAN : DetectorCombo(hasMatchesNow)
    \/ \E withSpecials \in BOOLEAN : DetectorScore(withSpecials)

ScanSpec == ScanInit /\ [][ScanNext]_vars

\* ------------------------------------------------ special emoji activation
\* processSpecialEmoji.  Each outcome is [overflow, positions]: the positions
\* returned, or overflow when the recursion never returns and the call stack
\* runs out (RangeError).  bombs holds the bombs whose calls are on the stack
\* with nothing but bomb calls above them: a bomb met again from there is
\* called with the same board and no random draw in between, for ever.  A
\* recursion kept going by the draws of striped emojis ends with the first
\* draw that leaves the cycle; the runs of draws deeper than ChainDepth calls
\* are not followed.
ChainDepth == 6

RECURSIVE processSpecialEmoji(_, _, _, _, _)
RECURSIVE ChainReactions(_, _, _, _, _)

\* The loop over affectedPositions: the outcomes of the chain reactions of
\* the special emojis in targets, joined onto the outcomes in acc.
ChainReactions(g, targets, fuel, bombs, acc) ==
    IF targets = {} THEN acc
    ELSE LET pos == CHOOSE p \in targets : TRUE
             joined == {[overflow |-> a.overflow \/ o.overflow,
                         positions |-> IF a.overflow \/ o.overflow THEN {}
                                       ELSE a.positions \cup o.positions] :
                           a \in acc,
                           o \in processSpecialEmoji(g, pos.row, pos.col, fuel, bombs)}
         IN  ChainReactions(g, targets \ {pos}, fuel, bombs, joined)

processSpecialEmoji(g, row, col, fuel, bombs) ==
    LET emoji == getEmoji(g, row, col)
        specialType == getSpecialType(emoji)
    IN  IF specialType = Null THEN {[overflow |-> FALSE, positions |-> {}]}
        ELSE IF specialType = "bomb" /\ Pos(row, col) \in bombs
        THEN {[overflow |-> TRUE, positions |-> {}]}
        ELSE IF fuel = 0 THEN {}
        ELSE UNION {
               ChainReactions(g,
                   {pos \in affectedPositions :
                       /\ isSpecialEmoji(getEmoji(g, pos.row, pos.col))
                       /\ (pos.row # row \/ pos.col # col)},
                   fuel - 1,
                   IF specialType = "bomb" THEN bombs \cup {Pos(row, col)} ELSE {},
                   {[overflow |-> FALSE, positions |-> affectedPositions]}) :
               affectedPositions \in getSpecialEmojiEffect(g, row, col, specialType)}

\* A board with special emojis placed on it by createSpecialEmoji, and then
\* one call of processSpecialEmoji.
ChainSize == 3
MaxSpecials == 3

ChainCells == 0..(ChainSize - 1)

ChainInit ==
    /\ gameState = "menu"
    /\ score = 0 /\ level = 1 /\ moves = 30 /\ goal = 1000
    /\ selectedTile = NoTile
    /\ isProcessing = FALSE
    /\ powerUps = [hammer |-> 3, shuffle |-> 2, undo |-> 5]
    /\ activePowerUp = NoPowerUp
    /\ moveHistory = <<>>
    /\ grid = PairBoard(ChainSize, 0)
    /\ lastMatches = <<>>
    /\ comboMultiplier = 1
    /\ pc = "idle" /\ cascadeCount = 0 /\ totalScore = 0 /\ step = NoStep
    /\ plays = 0
    /\ lastOp = "construct"
    /\ before = NoBefore

Activated == lastOp \in {"activated", "activateOverflow"}

BoardCreateSpecial(row, col, type) ==
    /\ ~Activated
    /\ plays < MaxSpecials
    /\ plays' = plays + 1
    /\ grid' = createSpecialEmoji(grid, row, col, type)
    /\ lastOp' = "createSpecialEmoji"
    /\ UNCHANGED <<gameVars, detectorVars, cascadeVars, before>>

\* processSpecialEmoji(row, col); before keeps the origin, step.cleared the
\* positions returned.
DetectorActivate(row, col) ==
    /\ ~Activated
    /\ \E outcome \in processSpecialEmoji(grid, row, col, ChainDepth, {}) :
           /\ lastOp' = IF outcome.overflow THEN "activateOverflow" ELSE "activated"
           /\ step' = [NoStep EXCEPT !.cleared = outcome.positions]
    /\ before' = [requested |-> FALSE, pos1 |-> Pos(row, col)]
    /\ UNCHANGED <<gameVars, grid, detectorVars, pc, cascadeCount, totalScore, plays>>

ChainNext ==
    \/ \E row \in ChainCells, col \in ChainCells, type \in SpecialTypes :
           BoardCreateSpecial(row, col, type)
    \/ \E row \in ChainCells, col \in ChainCells : DetectorActivate(row, col)

ChainSpec == ChainInit /\ [][ChainNext]_vars

\* ----------------------------------------------------------------- storage
\* The grid as the arrays it is made of.  before.heap is the sequence of all
\* row arrays allocated so far; before.rows (this.grid) and every boardState
\* of moveHistory map a row number to the index of its array in the heap, so
\* two grids share storage exactly where they hold the same index.  The
\* variable grid is the live grid read through before.rows.
StorageOps == 5
StorageSnapshots == 2
StorageCells == {Pos(0, 0), Pos(1, 1), Pos(2, 1)}

Deref(heap, rows) == [r \in DOMAIN rows |-> heap[rows[r]]]

\* grid.map(row => [...row]); the mutant maps each row to itself.
CopyRowsShared(heap, rows) == [heap |-> heap, rows |-> rows]

CopyRows(heap, rows) ==
    [heap |-> heap \o [i \in 1..Size(rows) |-> heap[rows[i - 1]]],
     rows |-> [r \in DOMAIN rows |-> Len(heap) + r + 1]]

\* this.grid[row][col] = ... for the cells of g: the arrays of this.grid are
\* written in place.
WriteRows(heap, rows, g) ==
    [i \in DOMAIN heap |->
        IF \E r \in DOMAIN rows : rows[r] = i
        THEN g[CHOOSE r \in DOMAIN rows : rows[r] = i]
        ELSE heap[i]]

StorageInit ==
    /\ gameState = "menu"
    /\ score = 0 /\ level = 1 /\ moves = 30 /\ goal = 1000
    /\ selectedTile = NoTile
    /\ isProcessing = FALSE
    /\ powerUps = [hammer |-> 3, shuffle |-> 2, undo |-> 5]
    /\ activePowerUp = NoPowerUp
    /\ moveHistory = <<>>
    /\ grid = PairBoard(ChainSize, 0)
    /\ lastMatches = <<>>
    /\ comboMultiplier = 1
    /\ pc = "idle" /\ cascadeCount = 0 /\ totalScore = 0 /\ step = NoStep
    /\ plays = 0
    /\ lastOp = "construct"
    /\ before = [requested |-> FALSE,
                 heap |-> [i \in 1..ChainSize |-> PairBoard(ChainSize, 0)[i - 1]],
                 rows |-> [r \in 0..(ChainSize - 1) |-> r + 1],
                 restored |-> 0]

storageFrame ==
    <<gameState, score, level, moves, goal, selectedTile, isProcessing, powerUps,
      activePowerUp, detectorVars, cascadeVars>>

\* A method that writes the cells of this.grid, leaving the grid g.
StorageWrite(op, g) ==
    /\ plays < StorageOps
    /\ plays' = plays + 1
    /\ grid' = g
    /\ before' = [before EXCEPT !.heap = WriteRows(before.heap, before.rows, g)]
    /\ lastOp' = op
    /\ UNCHANGED <<storageFrame, moveHistory>>

\* saveMove: the snapshot of getState() goes on the move history.
StorageGetState ==
    /\ plays < StorageOps
    /\ Len(moveHistory) < StorageSnapshots
    /\ plays' = plays + 1
    /\ \E copy \in {CopyRows(before.heap, before.rows)} :
           /\ moveHistory' = Append(moveHistory, [boardState |-> copy.rows])
           /\ before' = [before EXCEPT !.heap = copy.heap]
    /\ lastOp' = "getState"
    /\ UNCHANGED <<storageFrame, grid>>

\* setState(s) with s a snapshot taken earlier, which its holder keeps.
StorageSetState(i) ==
    /\ plays < StorageOps
    /\ i \in 1..Len(moveHistory)
    /\ plays' = plays + 1
    /\ \E copy \in {CopyRows(before.heap, moveHistory[i].boardState)} :
           /\ before' = [before EXCEPT !.heap = copy.heap, !.rows = copy.rows,
                                        !.restored = i]
           /\ grid' = Deref(copy.heap, copy.rows)
    /\ lastOp' = "setState"
    /\ UNCHANGED <<storageFrame, moveHistory>>

StorageNext ==
    \/ StorageGetState
    \/ \E i \in 1..StorageSnapshots : StorageSetState(i)
    \/ \E pos1 \in StorageCells, pos2 \in StorageCells :
           StorageWrite("swapEmojis", swapEmojis(grid, pos1, pos2))
    \/ \E pos \in StorageCells : StorageWrite("removeEmojis", removeEmojis(grid, <<pos>>))
    \/ StorageWrite("applyGravity", applyGravity(grid))
    \/ \E choice \in Draws(EmptyCells(grid)) :
           StorageWrite("fillEmpty", fillEmpty(grid, choice))
    \/ \E shift \in 0..(ShuffleShifts - 1), draw \in Kinds :
           StorageWrite("shuffle", shuffle(grid, shift, draw))

StorageSpec == StorageInit /\ [][StorageNext]_vars

\* ------------------------------------------------- special emoji effects
\* A GameBoard alone: rows are emptied with removeEmojis, special emojis are
\* placed with createSpecialEmoji, and getSpecialEmojiEffect is asked for
\* the effect of a special emoji on the board.
EffectCalled == lastOp = "getSpecialEmojiEffect"

BoardRemoveRow(row) ==
    /\ ~EffectCalled
    /\ \E c \in DOMAIN grid : grid[row][c] # Null
    /\ grid' = removeEmojis(grid, [i \in 1..Size(grid) |-> Pos(row, i - 1)])
    /\ lastOp' = "removeEmojis"
    /\ UNCHANGED <<gameVars, detectorVars, cascadeVars, plays, before>>

\* getSpecialEmojiEffect(row, col, type) for the special emoji at (row, col);
\* before keeps the position, step.cleared the positions returned.
BoardGetSpecialEmojiEffect(row, col) ==
    /\ ~EffectCalled
    /\ isSpecialEmoji(grid[row][col])
    /\ \E positions \in getSpecialEmojiEffect(grid, row, col,
                                               getSpecialType(grid[row][col])) :
           step' = [NoStep EXCEPT !.cleared = positions]
    /\ before' = [requested |-> FALSE, pos1 |-> Pos(row, col)]
    /\ lastOp' = "getSpecialEmojiEffect"
    /\ UNCHANGED <<gameVars, grid, detectorVars, pc, cascadeCount, totalScore, plays>>

EffectNext ==
    \/ \E row \in ChainCells : BoardRemoveRow(row)
    \/ \E row \in ChainCells, col \in ChainCells, type \in SpecialTypes :
           ~EffectCalled /\ BoardCreateSpecial(row, col, type)
    \/ \E row \in ChainCells, col \in ChainCells : BoardGetSpecialEmojiEffect(row, col)

EffectSpec == ChainInit /\ [][EffectNext]_vars

\* ------------------------------------------------------------------- init
\* init() on a board of InitSize x InitSize cells drawing from the first
\* InitKinds emojis.  A cell not yet assigned reads as undefined.
InitSize == 3
InitKinds == 3

InitEmojis == {AllEmojis[i] : i \in 1..InitKinds}

Undefined == "undefined"

\* getRandomEmoji, as the set of the emojis it can return: any emoji where
\* the match test is skipped, an emoji that passes the test where there is
\* one, and any emoji when the 50 attempts are used up.  The mutant skips
\* the test everywhere.
getRandomEmojiUntested(kinds, g, row, col) == kinds

getRandomEmojiOutcomes(kinds, g, row, col) ==
    IF row < 2 /\ col < 2 THEN kinds
    ELSE IF \E e \in kinds : ~wouldCreateMatch(g, row, col, e)
    THEN {e \in kinds : ~wouldCreateMatch(g, row, col, e)}
    ELSE kinds

\* The two loops of init from cell number index on, in row-major order, as
\* the set of the grids they can end with.
RECURSIVE InitFill(_, _, _)
InitFill(kinds, g, index) ==
    IF index >= Size(g) * Size(g) THEN {g}
    ELSE LET row == index \div Size(g)
             col == index % Size(g)
         IN  UNION {InitFill(kinds, [g EXCEPT ![row][col] = e], index + 1) :
                       e \in getRandomEmojiOutcomes(kinds, g, row, col)}

\* init(): the fill, then removeInitialMatches.  The constructor calls it,
\* and it starts from an empty grid whenever it is called.
BoardInit ==
    /\ lastOp = "construct"
    /\ \E filled \in InitFill(InitEmojis,
                        [r \in 0..(InitSize - 1) |->
                            [c \in 0..(InitSize - 1) |-> Undefined]], 0),
          draw \in Kinds :
           grid' = removeInitialMatches(filled, draw)
    /\ lastOp' = "init"
    /\ UNCHANGED <<gameVars, detectorVars, cascadeVars, plays, before>>

InitInit ==
    /\ gameState = "menu"
    /\ score = 0 /\ level = 1 /\ moves = 30 /\ goal = 1000
    /\ selectedTile = NoTile
    /\ isProcessing = FALSE
    /\ powerUps = [hammer |-> 3, shuffle |-> 2, undo |-> 5]
    /\ activePowerUp = NoPowerUp
    /\ moveHistory = <<>>
    /\ grid = NoBoard
    /\ lastMatches = <<>>
    /\ comboMultiplier = 1
    /\ pc = "idle" /\ cascadeCount = 0 /\ totalScore = 0 /\ step = NoStep
    /\ plays = 0
    /\ lastOp = "construct"
    /\ before = NoBefore

InitNext == BoardInit

InitSpec == InitInit /\ [][InitNext]_vars

\* ------------------------------------------- boards with gaps and specials
\* A GameBoard with its MatchDetector, outside a game: cells are set with
\* setEmoji, emptied with removeEmojis and given a bomb with
\* createSpecialEmoji, and then the board is scanned and scored.
EditSize == 4

EditCells == 0..(EditSize - 1)

EditInit ==
    /\ gameState = "menu"
    /\ score = 0 /\ level = 1 /\ moves = 30 /\ goal = 1000
    /\ selectedTile = NoTile
    /\ isProcessing = FALSE
    /\ powerUps = [hammer |-> 3, shuffle |-> 2, undo |-> 5]
    /\ activePowerUp = NoPowerUp
    /\ moveHistory = <<>>
    /\ grid = PairBoard(EditSize, 0)
    /\ lastMatches = <<>>
    /\ comboMultiplier = 1
    /\ pc = "idle" /\ cascadeCount = 0 /\ totalScore = 0 /\ step = NoStep
    /\ plays = 0
    /\ lastOp = "construct"
    /\ before = NoBefore

\* The board is still being set up: no call on it has been followed yet.
Editing == lastOp \in {"construct", "setEmoji", "createSpecialEmoji", "removeEmojis"}

BoardRemoveEmojis(row, col) ==
    /\ Editing
    /\ plays < MaxEdits
    /\ plays' = plays + 1
    /\ grid' = removeEmojis(grid, <<Pos(row, col)>>)
    /\ lastOp' = "removeEmojis"
    /\ UNCHANGED <<gameVars, detectorVars, cascadeVars, before>>

\* getPossibleMoves(); before keeps the grid of the call and the moves
\* returned.
BoardGetPossibleMoves ==
    /\ Editing
    /\ \E result \in {PossibleMovesFrom([grid |-> grid, moves |-> <<>>], 0, 0)} :
           /\ grid' = result.grid
           /\ before' = [requested |-> FALSE, grid |-> grid, moves |-> result.moves]
    /\ lastOp' = "getPossibleMoves"
    /\ UNCHANGED <<gameVars, detectorVars, cascadeVars, plays>>

EditNext ==
    \/ \E row \in EditCells, col \in EditCells, emoji \in Kinds :
           Editing /\ BoardSetEmoji(row, col, emoji)
    \/ \E row \in EditCells, col \in EditCells :
           Editing /\ BoardCreateSpecial(row, col, "bomb")
    \/ \E row \in EditCells, col \in EditCells : BoardRemoveEmojis(row, col)
    \/ DetectorScore(TRUE)
    \/ BoardGetPossibleMoves

EditSpec == EditInit /\ [][EditNext]_vars

\* ---------------------------------------------------------------- gravity
\* A GameBoard alone, edited as above, and then applyGravity(); before keeps
\* the grid of the call and the movements returned.
BoardApplyGravity ==
    /\ Editing
    /\ \E result \in {applyGravityMovements(grid)} :
           /\ grid' = result.grid
           /\ before' = [requested |-> FALSE, grid |-> grid,
                          movements |-> result.movements]
    /\ lastOp' = "applyGravity"
    /\ UNCHANGED <<gameVars, detectorVars, cascadeVars, plays>>

GravityNext ==
    \/ \E row \in EditCells, col \in EditCells, emoji \in Kinds :
           Editing /\ BoardSetEmoji(row, col, emoji)
    \/ \E row \in EditCells, col \in EditCells :
           Editing /\ BoardCreateSpecial(row, col, "bomb")
    \/ \E row \in EditCells, col \in EditCells : BoardRemoveEmojis(row, col)
    \/ BoardApplyGravity

GravitySpec == EditInit /\ [][GravityNext]_vars

\* ------------------------------------------------------------------- swaps
\* A GameBoard alone: a few edits, then swapEmojis(pos1, pos2) and the same
\* call once more.  Positions run one cell past the board; before keeps the
\* grid and arguments of the first call.
SwapEdits == 2
SwapCells == 0..(ChainSize - 1)
SwapArgs == 0..ChainSize

\* The mutant swaps without the temp.
BoardSwapEmojisNoTemp(pos1, pos2) ==
    /\ grid' = swapEmojisNoTemp(grid, pos1, pos2)
    /\ before' = IF lastOp = "swapEmojis" THEN before
                  ELSE [requested |-> FALSE, grid |-> grid,
                        pos1 |-> pos1, pos2 |-> pos2]
    /\ lastOp' = IF lastOp = "swapEmojis" THEN "swapEmojisTwice" ELSE "swapEmojis"
    /\ UNCHANGED <<gameVars, detectorVars, cascadeVars, plays>>

BoardSwapEmojis(pos1, pos2) ==
    /\ grid' = swapEmojis(grid, pos1, pos2)
    /\ before' = IF lastOp = "swapEmojis" THEN before
                  ELSE [requested |-> FALSE, grid |-> grid,
                        pos1 |-> pos1, pos2 |-> pos2]
    /\ lastOp' = IF lastOp = "swapEmojis" THEN "swapEmojisTwice" ELSE "swapEmojis"
    /\ UNCHANGED <<gameVars, detectorVars, cascadeVars, plays>>

SwapNext ==
    \/ \E row \in SwapCells, col \in SwapCells, emoji \in Kinds :
           Editing /\ plays < SwapEdits /\ BoardSetEmoji(row, col, emoji)
    \/ \E row \in SwapCells, col \in SwapCells :
           Editing /\ plays < SwapEdits /\ BoardCreateSpecial(row, col, "bomb")
    \/ \E row \in SwapCells, col \in SwapCells :
           plays < SwapEdits /\ BoardRemoveEmojis(row, col)
    \/ \E r1 \in SwapArgs, c1 \in SwapArgs, r2 \in SwapArgs, c2 \in SwapArgs :
           Editing /\ BoardSwapEmojis(Pos(r1, c1), Pos(r2, c2))
    \/ lastOp = "swapEmojis" /\ BoardSwapEmojis(before.pos1, before.pos2)

SwapSpec == ChainInit /\ [][SwapNext]_vars

\* ------------------------------------------------------- calls off the board
\* A GameBoard alone: at most BoundsEdits edits, then one call of getEmoji,
\* swapEmojis, setEmoji, createSpecialEmoji or removeEmojis with rows and
\* columns that run one cell past the board on every side, and a second
\* removeEmojis with the positions of the first.  before keeps the grid and
\* the arguments of the call and what it returned.
BoundsEdits == 1
BoundsCells == 0..(ChainSize - 1)
BoundsArgs == (-1)..ChainSize
BoundsPositions == {Pos(r, c) : r \in BoundsArgs, c \in BoundsArgs}

NotCalled == before = NoBefore

\* What swapEmojis returns.
swapEmojisReturns(g, pos1, pos2) ==
    /\ isValidPosition(g, pos1.row, pos1.col)
    /\ isValidPosition(g, pos2.row, pos2.col)

Called(call, args, returned) ==
    /\ NotCalled
    /\ before' = [requested |-> FALSE, call |-> call, grid |-> grid,
                  args |-> args, returned |-> returned, again |-> FALSE]
    /\ lastOp' = call
    /\ UNCHANGED <<gameVars, detectorVars, cascadeVars, plays>>

BoundsGetEmoji(row, col) ==
    /\ Called("getEmoji", Pos(row, col), getEmoji(grid, row, col))
    /\ UNCHANGED grid

BoundsSwapEmojis(pos1, pos2) ==
    /\ Called("swapEmojis", <<pos1, pos2>>, swapEmojisReturns(grid, pos1, pos2))
    /\ grid' = swapEmojis(grid, pos1, pos2)

BoundsSetEmoji(row, col, emoji) ==
    /\ Called("setEmoji", Pos(row, col), Undefined)
    /\ grid' = setEmoji(grid, row, col, emoji)

BoundsCreateSpecialEmoji(row, col, type) ==
    /\ Called("createSpecialEmoji", Pos(row, col), Undefined)
    /\ grid' = createSpecialEmoji(grid, row, col, type)

BoundsRemoveEmojis(positions) ==
    /\ Called("removeEmojis", positions, Undefined)
    /\ grid' = removeEmojis(grid, positions)

BoundsRemoveEmojisAgain ==
    /\ lastOp = "removeEmojis"
    /\ ~NotCalled
    /\ ~before.again
    /\ grid' = removeEmojis(grid, before.args)
    /\ before' = [before EXCEPT !.again = TRUE, !.returned = grid]
    /\ UNCHANGED <<gameVars, detectorVars, cascadeVars, plays, lastOp>>

BoundsNext ==
    \/ \E row \in BoundsCells, col \in BoundsCells :
           NotCalled /\ plays < BoundsEdits /\ BoardCreateSpecial(row, col, "bomb")
    \/ \E row \in BoundsCells, col \in BoundsCells :
           NotCalled /\ plays < BoundsEdits /\ BoardRemoveEmojis(row, col)
    \/ \E row \in BoundsArgs, col \in BoundsArgs : BoundsGetEmoji(row, col)
    \/ \E pos1 \in BoundsPositions, pos2 \in BoundsPositions :
           BoundsSwapEmojis(pos1, pos2)
    \/ \E row \in BoundsArgs, col \in BoundsArgs, emoji \in Kinds :
           BoundsSetEmoji(row, col, emoji)
    \/ \E row \in BoundsArgs, col \in BoundsArgs, type \in SpecialTypes :
           BoundsCreateSpecialEmoji(row, col, type)
    \/ \E pos1 \in BoundsPositions, pos2 \in BoundsPositions :
           BoundsRemoveEmojis(IF pos1 = pos2 THEN <<pos1>> ELSE <<pos1, pos2>>)
    \/ BoundsRemoveEmojisAgain

BoundsSpec == ChainInit /\ [][BoundsNext]_vars

\* ------------------------------------------------------------ end of a level
\* completeLevel and endGame called on a game being played, for the scores,
\* moves left and recorded high scores below.  The high score and what the
\* call returns are kept in before: highScore is this.highScore, previous
\* its value when the call was made, result the object returned.  The game
\* is not timed, timeLeft is 0.
ResultSteps == 5
ResultMaxMoves == 2
ResultScores == {k * 50 : k \in 0..ResultSteps}
ResultMoves == 0..ResultMaxMoves
EndReasons == {"noMoves", "timeUp"}
NoResult == [isHighScore |-> FALSE, finalScore |-> -1]

ResultInit ==
    /\ gameState = "playing"
    /\ score \in ResultScores
    /\ level = 1
    /\ moves \in ResultMoves
    /\ goal = Level1Goal
    /\ selectedTile = NoTile
    /\ isProcessing = FALSE
    /\ powerUps = [hammer |-> 3, shuffle |-> 2, undo |-> 5]
    /\ activePowerUp = NoPowerUp
    /\ moveHistory = <<>>
    /\ grid = PairBoard(GameSize, 0)
    /\ lastMatches = <<>>
    /\ comboMultiplier = 1
    /\ pc = "idle" /\ cascadeCount = 0 /\ totalScore = 0 /\ step = NoStep
    /\ plays = 0
    /\ lastOp = "construct"
    /\ \E highScore \in ResultScores :
          before = [requested |-> FALSE, highScore |-> highScore,
                    previous |-> highScore, result |-> NoResult]

\* The high score check shared by completeLevel and endGame, and the
\* isHighScore of the object returned, read after the update.
RecordHighScore(finalScore) ==
    LET highScore == IF finalScore > before.highScore
                     THEN finalScore
                     ELSE before.highScore
    IN  before' = [requested |-> FALSE,
                   highScore |-> highScore,
                   previous |-> before.highScore,
                   result |-> [isHighScore |-> finalScore > highScore,
                               finalScore |-> finalScore]]

completeLevel ==
    /\ gameState = "playing"
    /\ gameState' = "levelComplete"
    /\ score' = score + moves * 50
    /\ RecordHighScore(score + moves * 50)
    /\ lastOp' = "completeLevel"
    /\ UNCHANGED <<level, moves, goal, selectedTile, isProcessing, powerUps,
                   activePowerUp, moveHistory, grid, detectorVars, cascadeVars,
                   plays>>

endGame(reason) ==
    /\ gameState = "playing"
    /\ gameState' = "gameOver"
    /\ RecordHighScore(score)
    /\ lastOp' = "endGame"
    /\ UNCHANGED <<score, level, moves, goal, selectedTile, isProcessing, powerUps,
                   activePowerUp, moveHistory, grid, detectorVars, cascadeVars,
                   plays>>

ResultNext ==
    \/ completeLevel
    \/ \E reason \in EndReasons : endGame(reason)

ResultSpec == ResultInit /\ [][ResultNext]_vars

\* ------------------------------------------------------------------ timer
\* The countdown.  The fields of the game that only the timer uses are kept
\* in before: gameMode, timeLeft, timerInterval (whether the handle is set)
\* and timers (the intervals set and not cleared); tickIn is the gameState
\* in which the last tick ran and timeUpFrom the gameState from which the
\* last endGame('timeUp') was raised.  The board plays no part: levels are
\* won and lost by LevelWon and LevelLost, which stand for the checkGameEnd
\* of a settled swap.  Levels go up to TimerLevels.
TimerLevels == 11
GameModes == {"normal", "timed"}
TimedModeSeconds == 60

timeLimit(levelNumber) ==
    IF levelNumber % 10 = 0
    THEN LET limit == 120 - (levelNumber \div 10) * 10
         IN  IF limit > 60 THEN limit ELSE 60
    ELSE 0

TimerInit ==
    /\ gameState = "menu"
    /\ score = 0 /\ level = 1 /\ moves = 30 /\ goal = 1000
    /\ selectedTile = NoTile
    /\ isProcessing = FALSE
    /\ powerUps = [hammer |-> 3, shuffle |-> 2, undo |-> 5]
    /\ activePowerUp = NoPowerUp
    /\ moveHistory = <<>>
    /\ grid = NoBoard
    /\ lastMatches = <<>>
    /\ comboMultiplier = 1
    /\ pc = "idle" /\ cascadeCount = 0 /\ totalScore = 0 /\ step = NoStep
    /\ plays = 0
    /\ lastOp = "construct"
    /\ before = [requested |-> FALSE, gameMode |-> "normal", timeLeft |-> 0,
                 timerInterval |-> FALSE, timers |-> 0,
                 tickIn |-> "none", timeUpFrom |-> "none"]

\* startTimer and stopTimer, as changes of the timer fields t.
startTimer(t) ==
    [t EXCEPT !.timerInterval = TRUE,
              !.timers = (IF t.timerInterval THEN t.timers - 1 ELSE t.timers) + 1]

stopTimer(t) ==
    IF t.timerInterval
    THEN [t EXCEPT !.timerInterval = FALSE, !.timers = t.timers - 1]
    ELSE t

\* The timer part of loadLevel.
loadLevelTimer(t, levelNumber) ==
    LET loaded == [t EXCEPT !.timeLeft = timeLimit(levelNumber)]
    IN  IF loaded.timeLeft > 0 THEN startTimer(loaded) ELSE loaded

timerFrame ==
    <<score, moves, goal, selectedTile, isProcessing, powerUps, activePowerUp,
      moveHistory, detectorVars, cascadeVars, plays>>

\* startNewGame(mode): with a board already there the call stops at
\* board.setEmojiMode, before loadLevel and the timer.
TimerStartNewGame(mode) ==
    /\ gameState' = "playing"
    /\ level' = 1
    /\ IF grid = NoBoard
       THEN /\ grid' = PairBoard(GameSize, 0)
            /\ LET loaded == loadLevelTimer([before EXCEPT !.gameMode = mode], 1)
               IN  before' = IF mode = "timed"
                             THEN startTimer([loaded EXCEPT !.timeLeft = TimedModeSeconds])
                             ELSE loaded
       ELSE /\ before' = [before EXCEPT !.gameMode = mode]
            /\ UNCHANGED grid
    /\ lastOp' = "startNewGame"
    /\ UNCHANGED timerFrame

\* The callback of setInterval.
TimerTick ==
    /\ before.timers > 0
    /\ LET ticked == [before EXCEPT !.timeLeft = before.timeLeft - 1,
                                    !.tickIn = gameState]
       IN  IF ticked.timeLeft <= 0
           THEN /\ gameState' = "gameOver"
                /\ before' = stopTimer([ticked EXCEPT !.timeUpFrom = gameState])
           ELSE /\ before' = ticked
                /\ UNCHANGED gameState
    /\ lastOp' = "tick"
    /\ UNCHANGED <<timerFrame, level, grid>>

TimerPauseGame ==
    /\ gameState = "playing"
    /\ gameState' = "paused"
    /\ before' = stopTimer(before)
    /\ lastOp' = "pauseGame"
    /\ UNCHANGED <<timerFrame, level, grid>>

TimerResumeGame ==
    /\ gameState = "paused"
    /\ gameState' = "playing"
    /\ before' = IF before.timeLeft > 0 THEN startTimer(before) ELSE before
    /\ lastOp' = "resumeGame"
    /\ UNCHANGED <<timerFrame, level, grid>>

\* WelcomeScreen.showWelcomeScreen, the back-to-menu button.
ShowWelcomeScreen ==
    /\ grid # NoBoard
    /\ gameState' = "menu"
    /\ lastOp' = "showWelcomeScreen"
    /\ UNCHANGED <<timerFrame, level, grid, before>>

\* checkGameEnd after a settled swap: completeLevel, or endGame.
LevelWon ==
    /\ gameState = "playing"
    /\ gameState' = "levelComplete"
    /\ before' = stopTimer(before)
    /\ lastOp' = "completeLevel"
    /\ UNCHANGED <<timerFrame, level, grid>>

LevelLost ==
    /\ gameState = "playing"
    /\ gameState' = "gameOver"
    /\ before' = stopTimer(before)
    /\ lastOp' = "endGame"
    /\ UNCHANGED <<timerFrame, level, grid>>

TimerNextLevel ==
    /\ gameState = "levelComplete"
    /\ level < TimerLevels
    /\ level < NumLevels
    /\ level' = level + 1
    /\ before' = loadLevelTimer(before, level + 1)
    /\ gameState' = "playing"
    /\ lastOp' = "nextLevel"
    /\ UNCHANGED <<timerFrame, grid>>

TimerRestartLevel ==
    /\ gameState \in {"paused", "gameOver", "levelComplete"}
    /\ before' = loadLevelTimer(before, level)
    /\ gameState' = "playing"
    /\ lastOp' = "restartLevel"
    /\ UNCHANGED <<timerFrame, level, grid>>

TimerNext ==
    \/ \E mode \in GameModes : TimerStartNewGame(mode)
    \/ TimerTick
    \/ TimerPauseGame
    \/ TimerResumeGame
    \/ ShowWelcomeScreen
    \/ LevelWon
    \/ LevelLost
    \/ TimerNextLevel
    \/ TimerRestartLevel

TimerSpec == TimerInit /\ [][TimerNext]_vars

\* ------------------------------------------------------- every game state
\* The game with its levels, the undo power-up, and pauseGame and
\* resumeGame: every gameState is reached.
StateNext ==
    \/ HistoryNext
    \/ PauseGame
    \/ ResumeGame

StateSpec == Init /\ [][StateNext]_vars

\* ------------------------------------------------------------ properties
\* A swap request that got as far as attemptSwap has just been answered, or
\* its cascade is running or has settled, or it has just been undone.
SwapRequested == before.requested

Tentative == swapEmojis(before.grid, before.pos1, before.pos2)

\* C1: an accepted swap immediately followed by a successful undo leaves the
\* score, the moves remaining and every grid cell as they were before the
\* swap was requested.
UndoRestoresPreSwapState ==
    lastOp = "swapUndone" =>
        /\ score = before.score
        /\ moves = before.moves
        /\ grid = before.grid

\* C2: when the tentative exchange (moves remaining > 0) yields no linear and
\* no shaped match, attemptSwap reports failure and grid, score, moves
\* remaining, combo multiplier and move history are as before the request.
RejectedSwapChangesNothing ==
    (/\ SwapRequested
     /\ before.moves > 0
     /\ Len(findMatches(Tentative)) = 0
     /\ Len(findShapedMatches(findMatches(Tentative))) = 0)
    => /\ lastOp = "swapRejected"
       /\ grid = before.grid
       /\ score = before.score
       /\ moves = before.moves
       /\ comboMultiplier = before.comboMultiplier
       /\ moveHistory = before.moveHistory

RejectedSwapSeen ==
    /\ lastOp = "swapRejected"
    /\ before.moves > 0
    /\ before.grid[before.pos1.row][before.pos1.col]
         # before.grid[before.pos2.row][before.pos2.col]
    /\ Len(before.moveHistory) > 0

\* C3: an accepted swap takes exactly one move, however many cascade steps it
\* runs; a rejected swap takes none; moves remaining is never negative.
MovesAccounting ==
    /\ moves >= 0
    /\ lastOp \in {"swapAccepted", "swapSettled"} => moves = before.moves - 1
    /\ lastOp \in {"swapRejected", "swapRefused"} => moves = before.moves

AcceptedSwapCascaded ==
    /\ lastOp = "swapSettled"
    /\ cascadeCount >= 2
    /\ moves = before.moves - 1

\* C4: when the cascade of an accepted swap has finished, a rescan with
\* findMatches and findShapedMatches finds nothing.
SettledBoardHasNoMatch ==
    lastOp = "swapSettled" =>
        /\ Len(findMatches(grid)) = 0
        /\ Len(findShapedMatches(findMatches(grid))) = 0

SettledAfterCascade ==
    /\ lastOp = "swapSettled"
    /\ cascadeCount >= 2
    /\ Len(findMatches(grid)) = 0

SingleMatchAddsThirty ==
    (/\ lastOp = "swapSettled"
     /\ cascadeCount = 1
     /\ Len(step.allMatches) = 1
     /\ step.allMatches[1].type # "shaped"
     /\ step.allMatches[1].length = 3)
    => /\ totalScore = 30
       /\ gameState = "playing" => score = before.score + 30

\* C9: a special tile that is one of the two tiles of an accepted swap has
\* the positions of its effect set removed during that move's resolution.
\* (The other case, a special tile among the cleared positions, does not
\* occur: the matches of findMatches hold no special tile.)
SwappedSpecialIn(p, q) ==
    isSpecialEmoji(before.grid[p.row][p.col]) =>
        \E effect \in getSpecialEmojiEffect(Tentative, q.row, q.col,
                                            getSpecialType(before.grid[p.row][p.col])) :
            effect \subseteq step.cleared

SwappedSpecialTriggers ==
    lastOp = "swapSettled" =>
        /\ SwappedSpecialIn(before.pos1, before.pos2)
        /\ SwappedSpecialIn(before.pos2, before.pos1)

\* C7: the step total of calculateScore is (the sum over the matches of
\* positions.length times the points per tile, plus 100 for each special
\* emoji given) times the current combo multiplier, with 25 points per tile
\* for a shaped match, 10 for a run of 3, 20 for a run of 4 and 50 for a run
\* of 5 or more; one run of 3 at multiplier 1 gives 30, one run of 4 with one
\* striped tile at multiplier 2 gives 360.
PointsPerTile(match) ==
    IF match.type = "shaped" THEN 25
    ELSE IF match.length = 3 THEN 10
    ELSE IF match.length = 4 THEN 20
    ELSE 50

RECURSIVE TileSum(_)
TileSum(matches) ==
    IF matches = <<>> THEN 0
    ELSE Len(Head(matches).positions) * PointsPerTile(Head(matches))
         + TileSum(Tail(matches))

OneRunOf(n) ==
    /\ Len(step.allMatches) = 1
    /\ step.allMatches[1].type # "shaped"
    /\ step.allMatches[1].length = n

StepTotalFormula ==
    lastOp = "score" =>
        /\ step.scoreData.totalScore =
             (TileSum(step.allMatches) + 100 * Len(step.scored)) * comboMultiplier
        /\ (OneRunOf(3) /\ comboMultiplier = 1) => step.scoreData.totalScore = 30
        /\ (/\ OneRunOf(4) /\ comboMultiplier = 2
            /\ Len(step.scored) = 1 /\ step.scored[1].type = "striped")
           => step.scoreData.totalScore = 360

RunOfFourScored ==
    /\ lastOp = "score"
    /\ OneRunOf(4)
    /\ step.allMatches[1].type = "vertical"
    /\ comboMultiplier = 2
    /\ Len(step.scored) = 1 /\ step.scored[1].type = "striped"
    /\ step.scoreData.totalScore = 360

\* C8: when the only runs of a step are a horizontal run of 3 and a vertical
\* run of 3 of one kind that share a corner tile, the shaped match has 5
\* positions, the step's base score is 125 and exactly one special emoji, a
\* bomb, is created.
LIntersection ==
    /\ Len(step.allMatches) = 3
    /\ step.allMatches[1].type = "horizontal" /\ step.allMatches[1].length = 3
    /\ step.allMatches[2].type = "vertical" /\ step.allMatches[2].length = 3
    /\ step.allMatches[3].type = "shaped"
    /\ step.allMatches[1].row \in {step.allMatches[2].startRow, step.allMatches[2].endRow}
    /\ step.allMatches[2].col \in {step.allMatches[1].startCol, step.allMatches[1].endCol}

LIntersectionScores125 ==
    (lastOp = "score" /\ LIntersection) =>
        /\ Len(step.allMatches[3].positions) = 5
        /\ step.scoreData.baseScore = 125
        /\ Len(step.specialEmojis) = 1
        /\ step.specialEmojis[1].type = "bomb"

\* C10: createSpecialEmojis gives, match by match, a bomb at the intersection
\* of a shaped match, a striped emoji for a run of 4, a rainbow emoji for a
\* run of 5 or more and nothing for a run of 3, and the emoji of a run is at
\* the cell of index floor(length / 2) of the run, also when the run crosses
\* a run of the other orientation.
RunCell(match, index) ==
    IF match.type = "horizontal"
    THEN Pos(match.row, match.startCol + index)
    ELSE Pos(match.startRow + index, match.col)

TierSpecial(match) ==
    IF match.type = "shaped"
    THEN <<[type |-> "bomb", position |-> match.intersection]>>
    ELSE IF match.length = 4
    THEN <<[type |-> "striped", position |-> RunCell(match, 2)]>>
    ELSE IF match.length >= 5
    THEN <<[type |-> "rainbow", position |-> RunCell(match, match.length \div 2)]>>
    ELSE <<>>

RECURSIVE TierSpecials(_)
TierSpecials(matches) ==
    IF matches = <<>> THEN <<>>
    ELSE TierSpecial(Head(matches)) \o TierSpecials(Tail(matches))

SpecialsByTierAtRunMiddle ==
    lastOp = "score" =>
        [i \in DOMAIN step.specialEmojis |->
            [type |-> step.specialEmojis[i].type,
             position |-> step.specialEmojis[i].position]]
        = TierSpecials(step.allMatches)

\* C11: once an operation (swap accepted or rejected, hammer, shuffle, undo,
\* level load) has completed no cell of the grid is empty; applyGravity and
\* then fillEmpty leave no empty cell.
NoEmptyCell ==
    grid # NoBoard =>
        \A r \in DOMAIN grid : \A c \in DOMAIN grid[r] : grid[r][c] # Null

HammerRefilled ==
    /\ lastOp = "hammer"
    /\ powerUps.hammer = 2
    /\ \A r \in DOMAIN grid : \A c \in DOMAIN grid[r] : grid[r][c] # Null

\* C12: a swap request for two positions that are not adjacent, or made with
\* no move left, is rejected and leaves grid, score, moves remaining, combo
\* multiplier and move history as they were.
SideBySide(pos1, pos2) ==
    \/ pos1.row = pos2.row /\ (pos1.col = pos2.col + 1 \/ pos2.col = pos1.col + 1)
    \/ pos1.col = pos2.col /\ (pos1.row = pos2.row + 1 \/ pos2.row = pos1.row + 1)

ImmediateRejection ==
    /\ [](before.requested =>
            /\ SideBySide(before.pos1, before.pos2)
            /\ before.moves = 0 =>
                 /\ lastOp = "swapRefused"
                 /\ grid = before.grid
                 /\ score = before.score
                 /\ moves = before.moves
                 /\ comboMultiplier = before.comboMultiplier
                 /\ moveHistory = before.moveHistory)
    /\ [][(lastOp' = "reselect" /\ selectedTile' # selectedTile) =>
            /\ ~SideBySide(selectedTile, selectedTile')
            /\ UNCHANGED <<grid, score, moves, comboMultiplier, moveHistory>>]_vars

SwapRefusedAtZeroMoves ==
    /\ lastOp = "swapRefused"
    /\ before.requested
    /\ before.moves = 0
    /\ moves = 0
    /\ gameState = "playing"

\* C13: on a board where no swap of two adjacent tiles makes a match
\* getPossibleMoves returns the empty list, and a move that settles on such
\* a board below the goal ends the game (gameOver), also with moves left.
ValidSwaps(g) ==
    {m \in [pos1 : [row : DOMAIN g, col : DOMAIN g],
            pos2 : [row : DOMAIN g, col : DOMAIN g]] :
        /\ SideBySide(m.pos1, m.pos2)
        /\ Len(findMatches(swapEmojis(g, m.pos1, m.pos2))) > 0}

DeadBoardEndsGame ==
    (lastOp = "swapSettled" /\ score < goal /\ ValidSwaps(grid) = {}) =>
        /\ getPossibleMoves(grid) = {}
        /\ gameState = "gameOver"

\* C14: each successful undo takes one from the undo counter and clears the
\* active power-up, so that at most 5 undos succeed in a game.
UndoCountsDown ==
    /\ [](powerUps.undo \in 0..5)
    /\ [][(lastOp' \in {"undo", "swapUndone"} /\ Len(moveHistory') < Len(moveHistory)) =>
            /\ powerUps'.undo = powerUps.undo - 1
            /\ activePowerUp' = NoPowerUp]_vars

\* C15: each use of hammer or shuffle takes exactly one from that power-up's
\* counter and clears the active power-up; the counters start at hammer 3 and
\* shuffle 2, never go below zero, and a power-up whose counter is 0 is
\* neither activated nor used.
PowerUpUsed == plays' = plays + 1 /\ lastOp' \in {"hammer", "shuffle"}

PowerUpCounters ==
    /\ powerUps.hammer = 3 /\ powerUps.shuffle = 2
    /\ [](/\ powerUps.hammer \in 0..3
          /\ powerUps.shuffle \in 0..2
          /\ activePowerUp \in {"hammer", "shuffle"} => powerUps[activePowerUp] > 0)
    /\ [][PowerUpUsed =>
            /\ activePowerUp = lastOp'
            /\ powerUps[activePowerUp] > 0
            /\ powerUps' = [powerUps EXCEPT ![activePowerUp] = @ - 1]
            /\ activePowerUp' = NoPowerUp]_vars
    /\ [][powerUps' # powerUps => PowerUpUsed]_vars

HammerUsedUp ==
    /\ lastOp = "hammer"
    /\ powerUps.hammer = 0
    /\ activePowerUp = NoPowerUp

\* C16: from the acceptance of a swap until its resolution is complete
\* (isProcessing true) no click, power-up use, undo or pause is served: only
\* the cascade changes grid and score, and game state, moves remaining,
\* selection, power-ups and history stay as they are.
CascadeNotInterrupted ==
    /\ [](isProcessing <=> pc = "cascade")
    /\ [][isProcessing =>
            /\ gameState = "playing"
            /\ UNCHANGED <<moves, selectedTile, powerUps, activePowerUp, moveHistory,
                           level, goal>>
            /\ isProcessing' => UNCHANGED <<gameState, score>>
            /\ grid' # grid => cascadeCount' = cascadeCount + 1]_vars

MidCascade ==
    /\ isProcessing
    /\ pc = "cascade"
    /\ cascadeCount = 1
    /\ gameState = "playing"

\* C17: processSpecialEmoji terminates for every arrangement of special
\* emojis, and the positions it returns hold the effect of the origin and of
\* every special emoji reached by the chain reaction.
EffectWithin(row, col, positions) ==
    isSpecialEmoji(grid[row][col]) =>
        \E effect \in getSpecialEmojiEffect(grid, row, col, getSpecialType(grid[row][col])) :
            effect \subseteq positions

ChainTerminatesWithUnion ==
    Activated =>
        /\ lastOp = "activated"
        /\ EffectWithin(before.pos1.row, before.pos1.col, step.cleared)
        /\ \A pos \in step.cleared : EffectWithin(pos.row, pos.col, step.cleared)

ComboMultiplierRange ==
    /\ [](/\ comboMultiplier \in 1..maxComboMultiplier
          /\ pc = "idle" => comboMultiplier = 1)
    /\ [][cascadeCount' = cascadeCount + 1 =>
              comboMultiplier' = Min(comboMultiplier + 1, 8)]_vars

ComboResetAfterCap ==
    /\ lastOp = "swapSettled"
    /\ cascadeCount >= 8
    /\ step.scoreData.multiplier = 8
    /\ comboMultiplier = 1

\* C20: the move history never holds more than 5 entries.  An accepted swap
\* appends one entry, for the two tiles swapped, and with 5 entries present
\* the oldest goes first.  An undo takes the most recent entry off and puts
\* its board, score and moves back; with an empty history it fails and
\* changes no field of the game, the board or the detector.
UndoClick == activePowerUp = "undo" /\ activePowerUp' = "undo"

HistoryBounded ==
    /\ [](Len(moveHistory) <= 5)
    /\ [][(pc = "idle" /\ lastOp' = "swapAccepted") =>
            LET entry == moveHistory'[Len(moveHistory')]
            IN  /\ Len(moveHistory') >= 1
                /\ entry.pos1 = before'.pos1 /\ entry.pos2 = before'.pos2
                /\ moveHistory' = IF Len(moveHistory) < 5
                                  THEN Append(moveHistory, entry)
                                  ELSE Append(Tail(moveHistory), entry)]_vars
    /\ [][(UndoClick /\ lastOp' \in {"undo", "swapUndone"}) =>
            /\ Len(moveHistory) >= 1
            /\ moveHistory' = SubSeq(moveHistory, 1, Len(moveHistory) - 1)
            /\ grid' = moveHistory[Len(moveHistory)].boardState
            /\ score' = moveHistory[Len(moveHistory)].score
            /\ moves' = moveHistory[Len(moveHistory)].moves]_vars
    /\ [][(UndoClick /\ lastOp' = "undoFailed") =>
            /\ Len(moveHistory) = 0
            /\ UNCHANGED <<gameVars, grid, detectorVars>>]_vars

OldestEvicted ==
    /\ lastOp = "swapAccepted"
    /\ Len(before.moveHistory) = 5
    /\ Len(moveHistory) = 5
    /\ moveHistory[1] = before.moveHistory[2]
    /\ moveHistory[1] # before.moveHistory[1]

\* The cells from the start to the end a match of findMatches records.
RunExtent(m) ==
    IF m.type = "horizontal"
    THEN {Pos(m.row, c) : c \in m.startCol..m.endCol}
    ELSE {Pos(r, m.col) : r \in m.startRow..m.endRow}

\* The cells next to the two ends of the run, on its line.
RunEnds(m) ==
    IF m.type = "horizontal"
    THEN {Pos(m.row, m.startCol - 1), Pos(m.row, m.endCol + 1)}
    ELSE {Pos(m.startRow - 1, m.col), Pos(m.endRow + 1, m.col)}

\* C21: each match findMatches returns records, in one row or one column, a
\* run of 3 or more cells that all hold the same basic emoji (no special
\* emoji, no empty cell) and that cannot be made longer at either end; its
\* positions are cells of that run, and no two runs of the same orientation
\* share a cell.
MatchesAreMaximalRuns ==
    lastOp = "score" =>
        /\ \A i \in 1..Len(lastMatches) :
              LET m == lastMatches[i] IN
              /\ m.type \in {"horizontal", "vertical"}
              /\ m.length >= 3
              /\ Cardinality(RunExtent(m)) = m.length
              /\ m.emoji \in Kinds
              /\ \A p \in RunExtent(m) :
                    /\ isValidPosition(grid, p.row, p.col)
                    /\ grid[p.row][p.col] = m.emoji
              /\ \A p \in RunEnds(m) :
                    isValidPosition(grid, p.row, p.col) =>
                        grid[p.row][p.col] # m.emoji
              /\ SeqToSet(m.positions) \subseteq RunExtent(m)
        /\ \A i, j \in 1..Len(lastMatches) :
              (i # j /\ lastMatches[i].type = lastMatches[j].type) =>
                  RunExtent(lastMatches[i]) \cap RunExtent(lastMatches[j]) = {}

RunsBesideBombAndGap ==
    /\ lastOp = "score"
    /\ \E i, j \in 1..Len(lastMatches) :
          /\ lastMatches[i].type = "horizontal" /\ lastMatches[j].type = "vertical"
          /\ \E p \in RunEnds(lastMatches[i]) :
                isValidPosition(grid, p.row, p.col) /\ grid[p.row][p.col] = Null
          /\ \E p \in RunEnds(lastMatches[j]) :
                isValidPosition(grid, p.row, p.col)
                    /\ isSpecialEmoji(grid[p.row][p.col])

\* C22: the positions list of each horizontal or vertical match of
\* findMatches holds exactly length positions, all different and at least 3,
\* and they are the cells of its run, also where the run crosses a run of
\* the other orientation.
PositionsCoverRun ==
    lastOp = "score" =>
        \A i \in 1..Len(lastMatches) :
            LET m == lastMatches[i] IN
            /\ Len(m.positions) = m.length
            /\ Len(m.positions) >= 3
            /\ Cardinality(SeqToSet(m.positions)) = Len(m.positions)
            /\ SeqToSet(m.positions) = RunExtent(m)

\* The runs of a board, read off the grid: the sets of 3 or more cells in a
\* row (in a column) that hold the same basic emoji and cannot be extended.
HorizontalRunsOf(g) ==
    {{Pos(r, c) : c \in a..b} : r \in DOMAIN g, a \in DOMAIN g, b \in DOMAIN g} \cap
    {run \in SUBSET [row : DOMAIN g, col : DOMAIN g] :
        /\ Cardinality(run) >= 3
        /\ \E k \in Kinds : \A p \in run : g[p.row][p.col] = k
        /\ \A p \in run : \A q \in {Pos(p.row, p.col - 1), Pos(p.row, p.col + 1)} :
              (q \notin run /\ isValidPosition(g, q.row, q.col)) =>
                  g[q.row][q.col] # g[p.row][p.col]}

VerticalRunsOf(g) ==
    {{Pos(r, c) : r \in a..b} : c \in DOMAIN g, a \in DOMAIN g, b \in DOMAIN g} \cap
    {run \in SUBSET [row : DOMAIN g, col : DOMAIN g] :
        /\ Cardinality(run) >= 3
        /\ \E k \in Kinds : \A p \in run : g[p.row][p.col] = k
        /\ \A p \in run : \A q \in {Pos(p.row - 1, p.col), Pos(p.row + 1, p.col)} :
              (q \notin run /\ isValidPosition(g, q.row, q.col)) =>
                  g[q.row][q.col] # g[p.row][p.col]}

\* C23: for every horizontal run and vertical run of the board that share a
\* cell, the scan emits exactly one shaped match whose positions are the
\* cells of both runs, each once, and whose intersection is the shared cell.
ShapedForEveryCrossing ==
    lastOp = "score" =>
        \A h \in HorizontalRunsOf(grid), v \in VerticalRunsOf(grid) :
            (h \cap v # {}) =>
                Cardinality({i \in 1..Len(step.allMatches) :
                    /\ step.allMatches[i].type = "shaped"
                    /\ {step.allMatches[i].intersection} = h \cap v
                    /\ SeqToSet(step.allMatches[i].positions) = h \cup v
                    /\ Len(step.allMatches[i].positions) = Cardinality(h \cup v)}) = 1

\* The swaps of a cell with its right or its lower neighbour.
NeighbourSwaps(g) ==
    {m \in [pos1 : [row : DOMAIN g, col : DOMAIN g],
            pos2 : [row : DOMAIN g, col : DOMAIN g]] :
        \/ (m.pos2.row = m.pos1.row /\ m.pos2.col = m.pos1.col + 1)
        \/ (m.pos2.row = m.pos1.row + 1 /\ m.pos2.col = m.pos1.col)}

\* C24: getPossibleMoves returns exactly the swaps of a cell with its right
\* or lower neighbour after which findMatches finds a match, the swaps that
\* attemptSwap accepts while moves are left, and leaves the grid as it was.
PossibleMovesAreAcceptedSwaps ==
    lastOp = "getPossibleMoves" =>
        /\ grid = before.grid
        /\ SeqToSet(before.moves) =
             {m \in NeighbourSwaps(grid) :
                 Len(findMatches(swapEmojis(grid, m.pos1, m.pos2))) > 0}

Spent(powerUpType) ==
    /\ activePowerUp = powerUpType
    /\ powerUps' = [powerUps EXCEPT ![powerUpType] = @ - 1]

\* The grid after the hammer on (row, col): the cells above (row, col) are
\* one row further down, a basic emoji is on top of the column, and every
\* other cell is as before.
Hammered(old, new, row, col) ==
    /\ DOMAIN new = DOMAIN old
    /\ \A r \in DOMAIN old, c \in DOMAIN old :
          new[r][c] = IF c # col \/ r > row THEN old[r][c]
                      ELSE IF r = 0 THEN new[0][col]
                      ELSE old[r - 1][c]
    /\ new[0][col] \in Kinds

EffectOfSpecialTile ==
    EffectCalled =>
        LET at == before.pos1
            type == getSpecialType(grid[at.row][at.col])
            all == [row : DOMAIN grid, col : DOMAIN grid]
            holding(k) == {p \in all : grid[p.row][p.col] = k}
        IN  /\ type \in SpecialTypes
            /\ type = "striped" =>
                  \/ step.cleared = {p \in all : p.row = at.row}
                  \/ step.cleared = {p \in all : p.col = at.col}
            /\ type = "bomb" =>
                  step.cleared = {p \in all : /\ Abs(p.row - at.row) <= 1
                                              /\ Abs(p.col - at.col) <= 1}
            /\ type = "rainbow" =>
                  IF \E k \in Kinds : holding(k) # {}
                  THEN \E k \in Kinds : holding(k) # {} /\ step.cleared = holding(k)
                  ELSE step.cleared = {}

RainbowOnBoardWithoutBasicEmoji ==
    /\ EffectCalled
    /\ getSpecialType(grid[before.pos1.row][before.pos1.col]) = "rainbow"
    /\ \A r \in DOMAIN grid, c \in DOMAIN grid : grid[r][c] \notin Kinds
    /\ step.cleared = {}

\* The emojis of column col from the top down, the empty cells left out.
RECURSIVE ColumnTiles(_, _, _)
ColumnTiles(g, col, row) ==
    IF row >= Size(g) THEN <<>>
    ELSE (IF g[row][col] = Null THEN <<>> ELSE <<g[row][col]>>)
         \o ColumnTiles(g, col, row + 1)

\* How many cells of column col below row are empty.
GapsBelow(g, row, col) ==
    Cardinality({r \in DOMAIN g : r > row /\ g[r][col] = Null})

\* C28: applyGravity leaves in every column the same emojis in the same
\* order from the top down, all of them below all the empty cells, and it
\* returns one movement (from, to, emoji) for each emoji whose row changed
\* and for no other.
GravityCompacts ==
    lastOp = "applyGravity" =>
        /\ DOMAIN grid = DOMAIN before.grid
        /\ \A col \in DOMAIN grid :
              /\ ColumnTiles(grid, col, 0) = ColumnTiles(before.grid, col, 0)
              /\ \A r \in DOMAIN grid, s \in DOMAIN grid :
                    (r < s /\ grid[s][col] = Null) => grid[r][col] = Null
        /\ Cardinality(SeqToSet(before.movements)) = Len(before.movements)
        /\ SeqToSet(before.movements) =
             {[from |-> Pos(r, c), to |-> Pos(r + GapsBelow(before.grid, r, c), c),
               emoji |-> before.grid[r][c]] :
                 <<r, c>> \in {rc \in (DOMAIN grid) \X (DOMAIN grid) :
                                 /\ before.grid[rc[1]][rc[2]] # Null
                                 /\ GapsBelow(before.grid, rc[1], rc[2]) > 0}}

FellPastTwoGaps ==
    /\ lastOp = "applyGravity"
    /\ \E i, j \in 1..Len(before.movements) :
          LET m == before.movements[i]
              n == before.movements[j]
          IN  /\ m.from.col = n.from.col
              /\ m.to.row - m.from.row = 2
              /\ n.to.row - n.from.row = 1
              /\ isSpecialEmoji(m.emoji)

SwapInBounds ==
    /\ isValidPosition(before.grid, before.pos1.row, before.pos1.col)
    /\ isValidPosition(before.grid, before.pos2.row, before.pos2.col)

\* C29: with both positions on the board, one swapEmojis puts each of the
\* two cells' emojis in the other cell and changes no third cell, and the
\* same call made again gives back the grid as it was.
SwapIsInvolution ==
    /\ (lastOp = "swapEmojis" /\ SwapInBounds) =>
          /\ DOMAIN grid = DOMAIN before.grid
          /\ \A r \in DOMAIN grid :
                /\ DOMAIN grid[r] = DOMAIN before.grid[r]
                /\ \A c \in DOMAIN grid[r] :
                      grid[r][c] =
                        IF Pos(r, c) = before.pos1
                        THEN before.grid[before.pos2.row][before.pos2.col]
                        ELSE IF Pos(r, c) = before.pos2
                        THEN before.grid[before.pos1.row][before.pos1.col]
                        ELSE before.grid[r][c]
    /\ (lastOp = "swapEmojisTwice" /\ SwapInBounds) => grid = before.grid

SwappedGapAndSpecialBack ==
    /\ lastOp = "swapEmojisTwice"
    /\ SwapInBounds
    /\ before.pos1 # before.pos2
    /\ ~areAdjacent(before.pos1, before.pos2)
    /\ before.grid[before.pos1.row][before.pos1.col] = Null
    /\ isSpecialEmoji(before.grid[before.pos2.row][before.pos2.col])

RowsOf(rows) == {rows[r] : r \in DOMAIN rows}

\* C30: no snapshot on the move history holds an array of the live grid,
\* whether it was taken by getState or given to setState, and no step
\* (swap, removal, gravity, refill, shuffle, or another getState or
\* setState) changes the cells read through a snapshot.
SnapshotsAreDetached ==
    /\ [](\A i \in 1..Len(moveHistory) :
             RowsOf(moveHistory[i].boardState) \cap RowsOf(before.rows) = {})
    /\ [][\A i \in 1..Len(moveHistory) :
             /\ i <= Len(moveHistory')
             /\ Deref(before'.heap, moveHistory'[i].boardState)
                  = Deref(before.heap, moveHistory[i].boardState)]_vars

GridWrittenAfterRestore ==
    /\ Len(moveHistory) = 2
    /\ before.restored = 1
    /\ lastOp \in {"swapEmojis", "removeEmojis", "shuffle"}
    /\ Deref(before.heap, moveHistory[1].boardState) # grid
    /\ Deref(before.heap, moveHistory[2].boardState) # grid
    /\ Deref(before.heap, moveHistory[1].boardState)
         # Deref(before.heap, moveHistory[2].boardState)
    /\ grid = Deref(before.heap, before.rows)

OffBoard(g, pos) == ~(pos.row \in DOMAIN g /\ pos.col \in DOMAIN g)

\* C31: a call with a position off the board changes no cell: getEmoji
\* returns null, swapEmojis returns false, setEmoji and createSpecialEmoji
\* do nothing, removeEmojis empties the cells named that are on the board
\* and no other; and removeEmojis made a second time with the same positions
\* leaves the grid of the first.
OutOfBoundsIgnored ==
    /\ (lastOp = "getEmoji" /\ OffBoard(grid, before.args)) =>
          before.returned = Null /\ grid = before.grid
    /\ (lastOp = "swapEmojis"
          /\ (OffBoard(grid, before.args[1]) \/ OffBoard(grid, before.args[2]))) =>
          before.returned = FALSE /\ grid = before.grid
    /\ (lastOp \in {"setEmoji", "createSpecialEmoji"} /\ ~NotCalled
          /\ OffBoard(grid, before.args)) =>
          grid = before.grid
    /\ (lastOp = "removeEmojis" /\ ~NotCalled) =>
          /\ DOMAIN grid = DOMAIN before.grid
          /\ \A r \in DOMAIN grid :
                /\ DOMAIN grid[r] = DOMAIN before.grid[r]
                /\ \A c \in DOMAIN grid[r] :
                      grid[r][c] = IF Pos(r, c) \in SeqToSet(before.args)
                                   THEN Null
                                   ELSE before.grid[r][c]
          /\ before.again => grid = before.returned

RemovedOnAndOffBoardTwice ==
    /\ lastOp = "removeEmojis"
    /\ ~NotCalled
    /\ before.again
    /\ Len(before.args) = 2
    /\ OffBoard(grid, before.args[1])
    /\ ~OffBoard(grid, before.args[2])
    /\ before.grid[before.args[2].row][before.args[2].col] # Null
    /\ \E r \in DOMAIN grid, c \in DOMAIN grid : isSpecialEmoji(grid[r][c])

\* C32: the game is never idle in state 'playing' with no move left: the
\* accepted swap that takes the last move, with the score below the goal,
\* ends in gameOver when it has settled.
OutOfMovesEndsLevel ==
    ~(pc = "idle" /\ ~isProcessing /\ gameState = "playing" /\ moves = 0
        /\ score < goal)

\* C33: whenever a level is being played and no cascade is in progress,
\* findMatches finds no run on the board: at the start of the level, after a
\* settled swap, and after hammer, shuffle and undo.
IdleBoardHasNoMatch ==
    (gameState = "playing" /\ pc = "idle" /\ ~isProcessing /\ grid # NoBoard) =>
        Len(findMatches(grid)) = 0

\* C34: the move history is empty when a level begins, after startNewGame
\* and after nextLevel, so that no snapshot of an earlier level or game can
\* be restored by undo.
HistoryEmptyAtLevelStart ==
    lastOp \in {"startNewGame", "nextLevel"} => moveHistory = <<>>

\* C35: startNewGame, whatever the game state and whether or not a board
\* exists, leaves a level-1 game being played: score 0, the move budget of
\* level 1, an empty move history, combo multiplier 1 and a board as init
\* leaves it, without a run of three.
NewGameStartsLevelOne ==
    lastOp = "startNewGame" =>
        /\ gameState = "playing"
        /\ score = 0
        /\ level = 1
        /\ moves = levelConfig(1).moves
        /\ goal = levelConfig(1).goal
        /\ moveHistory = <<>>
        /\ comboMultiplier = 1
        /\ grid # NoBoard
        /\ ~hasMatches(grid)

\* C36: completeLevel and endGame return isHighScore = true exactly when the
\* final score is above the high score recorded before the call, and leave
\* the larger of the two as the high score.
HighScoreReported ==
    lastOp \in {"completeLevel", "endGame"} =>
        /\ before.result.isHighScore <=> (score > before.previous)
        /\ before.highScore = IF score > before.previous THEN score
                              ELSE before.previous

\* C37: the positions getSpecialEmojiEffect returns for the special tile at
\* (row, col) include (row, col), whatever the type of the tile.
EffectCoversItsTile ==
    EffectCalled => before.pos1 \in step.cleared

\* C38: a timer is set only while a level is being played and never more
\* than one; no tick runs in menu, paused, levelComplete or gameOver;
\* timeLeft is never below 0; and a time-up game over is raised from
\* 'playing' only.
CountdownOnlyWhilePlaying ==
    /\ before.timers <= 1
    /\ before.timers > 0 => gameState = "playing"
    /\ before.tickIn \in {"none", "playing"}
    /\ before.timeLeft >= 0
    /\ before.timeUpFrom \in {"none", "playing"}

ClickOutcomes ==
    {"select", "deselect", "reselect", "swapAccepted", "swapRejected",
     "swapRefused", "hammer", "shuffle", "undo", "undoFailed", "powerUpRefused"}

\* C39: while gameState is not 'playing' a tile click has no outcome but
\* rejection, which leaves the selection, the grid, the score, the moves
\* remaining, the power-up counters and the move history as they were; the
\* game becomes paused from 'playing' only, resumeGame acts from 'paused'
\* only and gives 'playing', and neither changes the grid, the score or the
\* moves remaining.
ClickNeedsPlaying ==
    /\ [][gameState # "playing" =>
            /\ lastOp' \notin ClickOutcomes
            /\ lastOp' = "clickRejected" =>
                  UNCHANGED <<selectedTile, grid, score, moves, powerUps,
                              moveHistory, gameState>>]_vars
    /\ [][(gameState' = "paused" /\ gameState # "paused") =>
            /\ gameState = "playing"
            /\ UNCHANGED <<grid, score, moves>>]_vars
    /\ [][(lastOp' = "resume" /\ gameState' # gameState) =>
            /\ gameState = "paused"
            /\ gameState' = "playing"
            /\ UNCHANGED <<grid, score, moves>>]_vars
    /\ [][(gameState = "paused" /\ gameState' # "paused") =>
            lastOp' \in {"resume", "startNewGame"}]_vars

ClickRejectedWhilePaused ==
    /\ lastOp = "clickRejected"
    /\ gameState = "paused"
    /\ selectedTile # NoTile
    /\ activePowerUp = "undo"
    /\ moveHistory # <<>>

====
